---- MODULE Spec2Model ----
(***************************************************************************)
(* git-push-deploy-cli (gpd): the client side of a deployment.             *)
(*                                                                         *)
(*   stage    <service>  src/commands/stage.ts     stageCommand            *)
(*   release  <service>  src/commands/release.ts   releaseCommand          *)
(*   deploy   <service>  src/commands/deploy.ts    deployCommand           *)
(*   rollback <service>  src/commands/rollback.ts  rollbackCommand         *)
(*   install  <service>  src/commands/install.ts   installCommand          *)
(*                                                                         *)
(* The state is the workspace on the developer machine (the built source   *)
(* tree, the deploy repository with its working tree, index, history, tags *)
(* and remotes), the branch head of every server's bare repository, the    *)
(* target directory of the server-side install, and the record of what the *)
(* last command invocation did.                                            *)
(***************************************************************************)
EXTENDS Integers, Sequences, FiniteSets, TLC

(***************************************************************************)
(* Bounds of the model.                                                    *)
(***************************************************************************)
MaxServers == 2     \* longest "servers" list of a configuration
MaxHooks   == 2     \* longest preDeploy hook list of a configuration
MaxCommits == 1     \* commits the deploy repository may hold
MaxHistory == 2     \* commits ever made where rollback is an operation
MaxPushes  == 2     \* pushes a server's bare repository receives
MaxRefs    == 2     \* refs updated by one push
MaxPath    == 2     \* characters of a configured path
MaxName    == 6     \* characters of a process name

(***************************************************************************)
(* Files.  A node of a tree is absent, a plain file (one entry ".") or a   *)
(* directory holding a set of files.  git tracks files only, so an empty   *)
(* directory and an absent node are the same to git.                       *)
(***************************************************************************)
CONFIG_FILENAME == ".git-deploy.json"

Artifacts == <<"dist", "package.json">>

ArtifactSet == {Artifacts[i] : i \in 1..Len(Artifacts)}

Paths == ArtifactSet \cup {CONFIG_FILENAME}

Absent == [present |-> FALSE, files |-> {}]

Dir(fs) == [present |-> TRUE, files |-> fs]

FileNode == Dir({"."})

\* The builds the source directory can hold for one artifact.
SourceNodes(a) ==
  IF a = "dist"
    THEN {Absent, Dir({"index.js"}), Dir({"index.js", "util.js"})}
    ELSE {Absent, FileNode}

NoTree == [p \in Paths |-> Absent]

\* What git sees of a working tree: the files, by path.
Tracked(tree) == UNION {{<<p, f>> : f \in tree[p].files} : p \in Paths}

(***************************************************************************)
(* Configuration (src/config/types.ts ServiceConfig).  A server is named   *)
(* by a number; 0 stands for an undefined "server" key.  hooks are counted:*)
(* preDeploy hooks 1..preDeploy, postDeployLocal hooks 1..postDeployLocal. *)
(* "server" and "servers" are both optional; a service is configured with  *)
(* one of them or with both.                                               *)
(***************************************************************************)
ServerIds == 1..MaxServers

AllServers == [i \in 1..MaxServers |-> i]

\* types.ts NotificationsConfig: per channel whether it is configured and
\* its onlyOnFailure flag.
Channels == {"slack", "discord", "webhook"}

NoChannel == [configured |-> FALSE, onlyOnFailure |-> FALSE]

Channel(onlyOnFailure) == [configured |-> TRUE, onlyOnFailure |-> onlyOnFailure]

NoNotifications == [c \in Channels |-> NoChannel]

ServiceConfig(s, ss, h) ==
  [server |-> s, servers |-> ss, preDeploy |-> h.preDeploy,
   postDeployLocal |-> h.postDeployLocal, notifications |-> NoNotifications]

NoHooks == [preDeploy |-> 0, postDeployLocal |-> 0]

WithHooks == [preDeploy |-> MaxHooks, postDeployLocal |-> 1]

Configs ==
  { ServiceConfig(1, <<>>, NoHooks),          \* "server" alone
    ServiceConfig(1, <<>>, WithHooks),
    ServiceConfig(0, AllServers, WithHooks),  \* "servers" alone
    ServiceConfig(1, AllServers, NoHooks) }   \* both keys

\* types.ts getServers: "servers" when non-empty, else [server], else throws.
getServersThrows(cfg) == cfg.servers = <<>> /\ cfg.server = 0

getServers(cfg) ==
  IF Len(cfg.servers) > 0 THEN cfg.servers ELSE <<cfg.server>>

\* types.ts buildSshUrl: the URL is a function of the server alone, and
\* different servers have different URLs.
buildSshUrl(srv) == srv

\* release.ts: `server-${index}` and 'origin'.  Index is 0-based.
origin == <<"origin", 0>>

serverRemote(index) == <<"server-", index>>

RemoteNames == {origin} \cup {serverRemote(i) : i \in 0..(MaxServers - 1)}

(***************************************************************************)
(* State.                                                                  *)
(***************************************************************************)
VARIABLES
  config,        \* the ServiceConfig of the service
  sourceExists,  \* the source directory exists
  source,        \* [Paths -> node]: the built project
  gitDir,        \* <deployRepo>/.git exists
  work,          \* [Paths -> node]: working tree of the deploy repository
  index,         \* git index of the deploy repository (set of tracked files)
  commits,       \* history of the deploy repository, oldest first
  remotes,       \* [RemoteNames -> url], 0 when the remote is not defined
  remoteHead,    \* [ServerIds -> 0..]: commit the bare repo's branch is at
  gitInits,      \* how many times `git init` ran in the deploy repository
  hashes,        \* the commit ids of the history, parallel to commits
  minted,        \* commits ever created in the deploy repository
  tag,           \* the commit an annotated tag points to, 0 without a tag
  targetDir,     \* the bare repository and target directory of a server
  run            \* what the last command invocation did

vars == <<config, sourceExists, source, gitDir, work, index, commits,
          remotes, remoteHead, gitInits, hashes, minted, tag, targetDir, run>>

Ev(op, arg, ok) == [op |-> op, arg |-> arg, ok |-> ok]

\* no "server" key
NoServer == [host |-> <<>>, targetDir |-> <<>>, bareRepo |-> <<>>]

\* no "servers" key
NoServers == [defined |-> FALSE, items |-> <<>>]

\* no .git-deploy.json has been read
NoFile == [processName |-> <<>>, server |-> NoServer, servers |-> NoServers]

\* no service entry: .git-deploy.json is not there
NoConfig == [known |-> FALSE, env |-> <<>>, postDeploy |-> 0,
             processManager |-> "none", pm2User |-> ""]

\* no deployCommand is under way
NoDeploy == [pc |-> "idle", skipPush |-> FALSE, calls |-> <<>>]

NoRun ==
  [cmd |-> "none", exit |-> "none", ops |-> <<>>, message |-> "",
   copied |-> {}, warned |-> {}, failedServers |-> <<>>, pushSuccess |-> TRUE,
   notified |-> "none", reached |-> {}, mode |-> "none", force |-> FALSE,
   asked |-> FALSE, answer |-> <<>>, selection |-> <<>>, current |-> <<"none", 0>>,
   targetCommit |-> <<"none", 0>>, listed |-> <<>>, loaded |-> NoConfig,
   refs |-> <<>>, file |-> NoFile, hookUser |-> "", deploy |-> NoDeploy,
   port |-> 0,
   delivery |-> [c \in {"slack", "discord", "webhook"} |-> "none"]]

\* deploy.ts deployCommand, lines 53-58: where a deployCommand stands once
\* the command it awaited has ended; a command that throws ends it.  A
\* command run on its own belongs to no deployCommand.
deployAfter(d, cmd, exit) ==
  IF d.pc = "initialized" /\ cmd = "stage"
    THEN [d EXCEPT !.pc = IF exit = "returned" THEN "staged" ELSE "failed",
                   !.calls = Append(@, [cmd |-> cmd, exit |-> exit])]
  ELSE IF d.pc = "staged" /\ cmd = "release"
    THEN [d EXCEPT !.pc = IF exit = "returned" THEN "deployed" ELSE "failed",
                   !.calls = Append(@, [cmd |-> cmd, exit |-> exit])]
  ELSE NoDeploy

HeadTree == IF commits = <<>> THEN {} ELSE commits[Len(commits)]

\* the commit id HEAD is at, 0 before the first commit
HeadHash == IF hashes = <<>> THEN 0 ELSE hashes[Len(hashes)]

(***************************************************************************)
(* utils/files.ts                                                          *)
(***************************************************************************)
exists(node) == node.present

removeDir(node) == Absent

\* cpSync(src, dest, {recursive: true}) copies into dest: files of dest that
\* src does not have stay where they are.
copy(src, dest) == Dir(dest.files \cup src.files)

(***************************************************************************)
(* commands/stage.ts                                                       *)
(***************************************************************************)
Repo == [gitDir |-> gitDir, work |-> work, remotes |-> remotes,
         gitInits |-> gitInits]

\* the check for an existing .git is lost: every stage initializes
initDeployRepoAlways(dotGit) == TRUE

\* initDeployRepoIfNeeded, line 17: TRUE when the repository has to be
\* initialized (the function returns false early when .git exists).
initDeployRepoIfNeeded(dotGit) == ~dotGit

\* `git remote add origin <url>` exits non-zero when origin is defined;
\* execSync then throws.
gitRemoteAddThrows(rem, name) == rem[name] # 0

\* the copy ends up in the branch of a missing destination: an artifact
\* staged before is removed and not copied again
stageArtifactRemoveOrCopy(src, dest) ==
  IF ~exists(src) THEN dest
  ELSE IF exists(dest) THEN removeDir(dest)
  ELSE copy(src, dest)

\* lines 71-82, one artifact: a present artifact replaces the old copy, an
\* absent one leaves the deploy repository as it is.
stageArtifact(src, dest) ==
  IF exists(src) THEN copy(src, removeDir(dest)) ELSE dest

\* line 85: the run is fatal when nothing was copied.
noArtifactsCopied(copiedCount) == copiedCount = 0

\* stageCommand as a function of the configuration, the source and the
\* deploy repository: the repository it leaves and how it ended.
stageCommand(cfg, srcExists, src, repo) ==
  LET stop(r, ops, msg) ==
        [repo |-> r, exit |-> "threw", ops |-> ops, message |-> msg,
         copied |-> {}, warned |-> {}]
      mustInit == initDeployRepoIfNeeded(repo.gitDir)
      initRepo == [repo EXCEPT !.gitDir = TRUE, !.gitInits = @ + 1]
      addThrows == gitRemoteAddThrows(repo.remotes, origin)
      afterInit ==
        IF ~mustInit THEN repo
        ELSE [initRepo EXCEPT !.remotes[origin] = buildSshUrl(cfg.server)]
      initOps ==
        IF mustInit
          THEN <<Ev("git-init", 0, TRUE), Ev("remote-add", 0, ~addThrows)>>
          ELSE <<>>
      copied == {a \in ArtifactSet : exists(src[a])}
      warned == ArtifactSet \ copied
      staged == [p \in Paths |->
                   IF p \in ArtifactSet
                     THEN stageArtifact(src[p], afterInit.work[p])
                     ELSE afterInit.work[p]]
      withConfig ==
        [staged EXCEPT ![CONFIG_FILENAME] = copy(FileNode, staged[CONFIG_FILENAME])]
  IN  IF ~srcExists THEN stop(repo, <<>>, "source-not-found")        \* line 54
      ELSE IF cfg.server = 0 THEN stop(repo, <<>>, "type-error")      \* line 62
      ELSE IF mustInit /\ addThrows
        THEN stop(initRepo, initOps, "remote-add-failed")             \* line 30
      ELSE IF noArtifactsCopied(Cardinality(copied))                  \* line 85
        THEN [repo |-> [afterInit EXCEPT !.work = staged], exit |-> "threw",
              ops |-> initOps, message |-> "no-artifacts",
              copied |-> copied, warned |-> warned]
      ELSE [repo |-> [afterInit EXCEPT !.work = withConfig],
            exit |-> "returned", ops |-> initOps, message |-> "staged",
            copied |-> copied, warned |-> warned]

Stage ==
  LET r == stageCommand(config, sourceExists, source, Repo) IN
  /\ gitDir' = r.repo.gitDir
  /\ work' = r.repo.work
  /\ remotes' = r.repo.remotes
  /\ gitInits' = r.repo.gitInits
  /\ run' = [NoRun EXCEPT !.cmd = "stage", !.exit = r.exit, !.ops = r.ops,
                          !.message = r.message, !.copied = r.copied,
                          !.warned = r.warned,
                          !.deploy = deployAfter(run.deploy, "stage", r.exit)]
  /\ UNCHANGED <<config, sourceExists, source, index, commits, remoteHead,
                 hashes, minted, tag, targetDir>>

(***************************************************************************)
(* utils/shell.ts and utils/git.ts                                         *)
(***************************************************************************)
\* What child_process.execSync hands back: the exit status of the command.
\* When the status is not 0 execSync throws an Error that carries the
\* fields of the spawn result, "stdout" among them.
execSync(ok) == [status |-> IF ok THEN 0 ELSE 1, hasStdout |-> TRUE]

\* shell.ts exec, lines 6-20: returns the output; an error that has a
\* "stdout" field is swallowed and its stdout returned, any other rethrown.
exec(result) ==
  IF result.status = 0 THEN "returned"
  ELSE IF result.hasStdout THEN "returned"
  ELSE "thrown"

\* git.ts hasChanges: `git status --porcelain` prints something.  Outside a
\* repository git fails and exec returns the empty output.
hasChanges(dotGit, tree, idx, head) ==
  dotGit /\ (idx # head \/ Tracked(tree) # idx)

\* git.ts gitAddAll: `git add -A`.
gitAddAll(tree) == Tracked(tree)

\* `git commit` exits 0 and creates a commit only when the index differs
\* from HEAD and git itself can commit (identity known, hooks pass).
commitCreated(idx, head, gitCanCommit) == idx # head /\ gitCanCommit

\* git.ts gitCommit, lines 20-28: true unless exec throws.
gitCommit(result) == exec(result) # "thrown"

\* git.ts gitPush, lines 33-35: throws when exec throws.
gitPush(result) == exec(result)

(***************************************************************************)
(* commands/release.ts                                                     *)
(***************************************************************************)
\* executeHooks, lines 17-31: the hooks run in order up to and including the
\* first that fails.  hookOk[i] is whether hook i exits 0.
firstFailed(n, hookOk) ==
  IF \A i \in 1..n : hookOk[i] THEN 0
  ELSE CHOOSE i \in 1..n : ~hookOk[i] /\ \A j \in 1..(i - 1) : hookOk[j]

hooksExecuted(n, hookOk) ==
  IF firstFailed(n, hookOk) = 0 THEN n ELSE firstFailed(n, hookOk)

\* the result of a failed hook is dropped
executeHooksIgnoresFailure(n, hookOk) == TRUE

executeHooks(n, hookOk) == firstFailed(n, hookOk) = 0

hookEvents(label, n, hookOk) ==
  [i \in 1..hooksExecuted(n, hookOk) |-> Ev(label, i, hookOk[i])]

\* ensureRemotes, lines 37-84.
ensureRemotes(rem, cfg) ==
  LET servers == getServers(cfg)
      n == Len(servers)
  IN  IF n = 1
        THEN [rem EXCEPT ![origin] = buildSshUrl(servers[1])]
        ELSE [r \in RemoteNames |->
                IF \E i \in 1..n : r = serverRemote(i - 1)
                  THEN buildSshUrl(servers[CHOOSE i \in 1..n : r = serverRemote(i - 1)])
                ELSE IF r = origin /\ rem[origin] = 0
                  THEN buildSshUrl(servers[1])
                ELSE rem[r]]

\* lines 143-166: the remote push number i of n goes to.
pushRemote(n, i) == IF n = 1 THEN origin ELSE serverRemote(i - 1)

\* the loop stops at the first push that exits non-zero (fail-fast)
pushLoopStopsOnFailure(result) == result.status # 0

\* lines 153-165: whether the result of one push ends the loop over the
\* servers.  The push sits in a try/catch, so it never does.
pushLoopAborts(result) == FALSE

\* the pushes the loop makes: all up to the first that ends it.
pushesAttempted(n, result) ==
  {i \in 1..n : \A j \in 1..(i - 1) : ~pushLoopAborts(result[j])}

(***************************************************************************)
(* utils/notifications.ts.  The answer to the POST of a channel is "ok",   *)
(* "status" (an HTTP error status) or "exception" (fetch rejects).         *)
(***************************************************************************)
FetchResults == {"ok", "status", "exception"}

\* the answers of the channels that are configured
Fetched(notifications) ==
  {f \in [Channels -> FetchResults] :
     \A c \in Channels : ~notifications[c].configured => f[c] = "ok"}

\* sendSlackNotification, sendDiscordNotification, sendWebhookNotification,
\* lines 113-135, 166-188, 193-220: what the promise of one channel
\* settles to.  The fetch sits in a try/catch, so it is never "rejected".
sendNotification(channel, success, fetched) ==
  IF channel.onlyOnFailure /\ success THEN "skipped"
  ELSE CASE fetched = "ok" -> "sent"
         [] fetched = "status" -> "failed"
         [] OTHER -> "error"

\* every fetch is awaited outside any try
sendNotificationsUnguarded(notifications, success, fetched) ==
  [settled |-> [c \in Channels |->
                  IF ~notifications[c].configured THEN "none"
                  ELSE IF fetched[c] = "exception" THEN "rejected"
                  ELSE sendNotification(notifications[c], success, fetched[c])],
   exit |-> IF \E c \in Channels :
                 notifications[c].configured /\ fetched[c] = "exception"
              THEN "threw" ELSE "returned"]

\* sendNotifications, lines 13-35: Promise.allSettled over the channels
\* that are configured.
sendNotifications(notifications, success, fetched) ==
  [settled |-> [c \in Channels |->
                  IF ~notifications[c].configured THEN "none"
                  ELSE sendNotification(notifications[c], success, fetched[c])],
   exit |-> "returned"]

\* lines 168-171: the condition under which the postDeployLocal hooks run.
runsPostDeployLocal(pushSuccess, nPost) == pushSuccess /\ nPost > 0

\* git.ts gitPush, lines 33-35: `git push <remote> <branch> --tags` carries
\* no --force, so the server takes the branch only as a fast-forward: what
\* it holds (old, 0 for nothing) is in the history that is pushed.
fastForward(old, history) ==
  old = 0 \/ \E j \in 1..Len(history) : history[j] = old

\* releaseCommand, lines 126-200: from `git add -A` to the end, once the
\* hooks passed and changes were found.  gitCanCommit and accepts are the
\* environment's answers, postOk[i] whether postDeployLocal hook i exits 0.
commitAndPush(preEvents, gitCanCommit, accepts, postOk, fetched) ==
  LET servers == getServers(config)
      n == Len(servers)
      remotes1 == ensureRemotes(remotes, config)
      index1 == gitAddAll(work)
      created == commitCreated(index1, HeadTree, gitCanCommit)
      commits1 == IF created THEN Append(commits, index1) ELSE commits
      hashes1 == IF created THEN Append(hashes, minted + 1) ELSE hashes
      committed == gitCommit(execSync(created))
      \* Push to each server
      pushed(i) == /\ accepts[i]
                   /\ Len(commits1) > 0
                   /\ remotes1[pushRemote(n, i)] # 0
                   /\ fastForward(remoteHead[remotes1[pushRemote(n, i)]],
                                  hashes1)
      result == [i \in 1..n |-> execSync(pushed(i))]
      attempted == pushesAttempted(n, result)
      threw(i) == i \in attempted /\ gitPush(result[i]) = "thrown"
      failedIdx == SelectSeq([i \in 1..n |-> i], threw)
      failedServers == [k \in 1..Len(failedIdx) |-> servers[failedIdx[k]]]
      pushSuccess == failedServers = <<>>
      pushEvents ==
        [k \in 1..Cardinality(attempted) |-> Ev("push", k, pushed(k))]
      postEvents ==
        IF runsPostDeployLocal(pushSuccess, config.postDeployLocal)
          THEN hookEvents("hook-post", config.postDeployLocal, postOk)
          ELSE <<>>
      heads == [s \in ServerIds |->
                  IF \E i \in attempted :
                       pushed(i) /\ remotes1[pushRemote(n, i)] = s
                    THEN hashes1[Len(hashes1)] ELSE remoteHead[s]]
      sent == sendNotifications(config.notifications, pushSuccess, fetched)
      \* arg 1 of the commit event: git found nothing to commit
      commitEvents == <<Ev("add", 0, TRUE),
                        Ev("commit", IF index1 = HeadTree THEN 1 ELSE 0, created)>>
  IN
  /\ index' = index1
  /\ commits' = commits1
  /\ hashes' = hashes1
  /\ minted' = IF created THEN minted + 1 ELSE minted
  /\ remotes' = remotes1
  /\ IF ~committed
       THEN /\ run' = [NoRun EXCEPT !.cmd = "release", !.exit = "returned",
                                    !.ops = preEvents \o commitEvents,
                                    !.message = "nothing-to-commit",
                                    !.deploy = deployAfter(run.deploy,
                                                 "release", "returned")]
            /\ UNCHANGED remoteHead
       ELSE /\ run' = [NoRun EXCEPT
                         !.cmd = "release", !.exit = sent.exit,
                         !.ops = preEvents \o commitEvents \o pushEvents
                                   \o postEvents
                                   \o <<Ev("notify", 0, pushSuccess)>>,
                         !.message = IF sent.exit = "threw"
                                       THEN "notification-error"
                                     ELSE IF pushSuccess THEN "released"
                                     ELSE "released-with-errors",
                         !.delivery = sent.settled,
                         !.failedServers = failedServers,
                         !.reached = {i \in attempted : accepts[i]},
                         !.deploy = deployAfter(run.deploy, "release",
                                                sent.exit),
                         !.pushSuccess = pushSuccess,
                         !.notified = IF pushSuccess THEN "success"
                                      ELSE "failure"]
            /\ remoteHead' = heads

\* The exit of the hooks, as far as they are asked: a hook runs in the source
\* directory and cannot start without it; no hook runs after a failed one.
HookAnswers(n) ==
  {h \in [1..n -> BOOLEAN] :
     /\ ~sourceExists => \A i \in 1..n : ~h[i]
     /\ \A i \in 1..n : ~h[i] => \A j \in i..n : ~h[j]}

\* releaseCommand, lines 91-200, in a repository where git can make at
\* most cap commits.
ReleaseWithin(cap) ==
  /\ \E preOk \in HookAnswers(config.preDeploy) :
       LET preEvents == hookEvents("hook-pre", config.preDeploy, preOk) IN
       IF ~executeHooks(config.preDeploy, preOk)                \* line 103
         THEN /\ \E fetched \in Fetched(config.notifications) :
                   LET sent == sendNotifications(config.notifications, FALSE,
                                                 fetched)
                   IN  run' = [NoRun EXCEPT
                                 !.cmd = "release", !.exit = sent.exit,
                                 !.ops = preEvents \o <<Ev("notify", 0, FALSE)>>,
                                 !.message = IF sent.exit = "threw"
                                               THEN "notification-error"
                                               ELSE "hooks-failed",
                                 !.delivery = sent.settled,
                                 !.deploy = deployAfter(run.deploy, "release",
                                                        sent.exit),
                                 !.notified = "failure"]
              /\ UNCHANGED <<index, commits, remotes, remoteHead, hashes,
                             minted>>
       ELSE IF ~hasChanges(gitDir, work, index, HeadTree)       \* line 118
         THEN /\ run' = [NoRun EXCEPT !.cmd = "release",
                                      !.exit = "returned", !.ops = preEvents,
                                      !.message = "no-changes",
                                      !.deploy = deployAfter(run.deploy,
                                                   "release", "returned")]
              /\ UNCHANGED <<index, commits, remotes, remoteHead, hashes,
                             minted>>
       ELSE \E gitCanCommit \in BOOLEAN,
               accepts \in [1..Len(getServers(config)) -> BOOLEAN],
               postOk \in HookAnswers(config.postDeployLocal),
               fetched \in Fetched(config.notifications) :
              /\ minted >= cap => ~gitCanCommit
              /\ commitAndPush(preEvents, gitCanCommit, accepts, postOk,
                               fetched)
  /\ UNCHANGED <<config, sourceExists, source, gitDir, work, gitInits, tag,
                 targetDir>>

Release == ReleaseWithin(MaxCommits)

(***************************************************************************)
(* commands/stage.ts, commands/release.ts, commands/deploy.ts: dry runs    *)
(***************************************************************************)
\* the preview stages
stageCommandDryRunCopies(cfg, srcExists, src, repo) ==
  stageCommand(cfg, srcExists, src, repo)

\* stageCommandDryRun, lines 103-143: what it reports and the deploy
\* repository it leaves.
stageCommandDryRun(cfg, srcExists, src, repo) ==
  LET copied == {a \in ArtifactSet : exists(src[a])} IN
  IF ~srcExists                                                   \* line 113
    THEN [repo |-> repo, exit |-> "threw", message |-> "source-not-found",
          copied |-> {}, warned |-> {}]
    ELSE [repo |-> repo, exit |-> "returned",
          message |-> IF ~repo.gitDir THEN "would-init"           \* line 121
                      ELSE "would-stage",
          copied |-> copied, warned |-> ArtifactSet \ copied]

\* releaseCommandDryRun, lines 205-253: what it reports.
releaseCommandDryRun(dotGit, tree, idx, head) ==
  IF ~dotGit THEN "not-initialized"                               \* line 214
  ELSE IF ~hasChanges(dotGit, tree, idx, head) THEN "no-changes"  \* line 221
  ELSE "would-push"

ApplyRepo(r) ==
  /\ gitDir' = r.gitDir
  /\ work' = r.work
  /\ remotes' = r.remotes
  /\ gitInits' = r.gitInits

StageDryRun ==
  LET r == stageCommandDryRun(config, sourceExists, source, Repo) IN
  /\ ApplyRepo(r.repo)
  /\ run' = [NoRun EXCEPT !.cmd = "stage-dry-run", !.exit = r.exit,
                          !.message = r.message, !.copied = r.copied,
                          !.warned = r.warned]
  /\ UNCHANGED <<config, sourceExists, source, index, commits, remoteHead,
                 hashes, minted, tag, targetDir>>

ReleaseDryRun ==
  /\ run' = [NoRun EXCEPT
               !.cmd = "release-dry-run", !.exit = "returned",
               !.message = releaseCommandDryRun(gitDir, work, index, HeadTree)]
  /\ UNCHANGED <<config, sourceExists, source, gitDir, work, index, commits,
                 remotes, remoteHead, gitInits, hashes, minted, tag, targetDir>>

\* deployCommand with options.dryRun, lines 38-47: the stage preview, then
\* the release preview of the repository the stage preview left.
DeployDryRun ==
  LET r == stageCommandDryRun(config, sourceExists, source, Repo) IN
  /\ ApplyRepo(r.repo)
  /\ run' = [NoRun EXCEPT
               !.cmd = "deploy-dry-run", !.exit = r.exit,
               !.message = IF r.exit = "threw" THEN r.message
                           ELSE releaseCommandDryRun(r.repo.gitDir, r.repo.work,
                                                     index, HeadTree),
               !.copied = r.copied, !.warned = r.warned]
  /\ UNCHANGED <<config, sourceExists, source, index, commits, remoteHead,
                 hashes, minted, tag, targetDir>>

(***************************************************************************)
(* commands/rollback.ts                                                    *)
(*                                                                         *)
(* A ref the user can name is <<"HEAD", n>> for HEAD~n, <<"hash", h>> for  *)
(* the id of a commit, <<"tag", 0>> for the annotated tag and              *)
(* <<"name", 0>> for a name git does not know.  What git prints for a ref  *)
(* is <<"commit", h>>, <<"tagobject", h>> for the tag object that points   *)
(* to commit h, or <<"text", ref>> when it echoes the ref it cannot        *)
(* resolve.                                                                *)
(***************************************************************************)
HEAD == <<"HEAD", 0>>

\* position in the history of the commit a ref points to, 0 when it
\* points to none
refPosition(hs, tg, ref) ==
  LET at(h) == IF \E k \in 1..Len(hs) : hs[k] = h
                 THEN CHOOSE k \in 1..Len(hs) : hs[k] = h ELSE 0
  IN  IF ref[1] = "HEAD"
        THEN (IF ref[2] >= 0 /\ Len(hs) - ref[2] >= 1 THEN Len(hs) - ref[2] ELSE 0)
      ELSE IF ref[1] = "hash" THEN at(ref[2])
      ELSE IF ref[1] = "tag" /\ tg # 0 THEN at(tg)
      ELSE 0

\* stdout of `git rev-parse <ref>`: the id of the object the ref names (for
\* an annotated tag the tag object, not the commit), or the ref itself when
\* it names nothing.
revParse(hs, tg, ref) ==
  LET k == refPosition(hs, tg, ref) IN
  IF k = 0 THEN <<"text", ref>>
  ELSE IF ref[1] = "tag" THEN <<"tagobject", hs[k]>>
  ELSE <<"commit", hs[k]>>

\* git.ts getCommitByRef, lines 163-165: execOutput of `git rev-parse`.
getCommitByRef(hs, tg, ref) ==
  [outcome |-> exec(execSync(refPosition(hs, tg, ref) # 0)),
   value |-> revParse(hs, tg, ref)]

\* git.ts getCurrentCommit, lines 134-136.
getCurrentCommit(hs, tg) == getCommitByRef(hs, tg, HEAD).value

Take(s, n) == SubSeq(s, 1, IF n < Len(s) THEN n ELSE Len(s))

\* the log is read oldest first
getCommitLogOldestFirst(hs, count) ==
  Take([k \in 1..Len(hs) |-> <<"commit", hs[k]>>], count)

\* git.ts getCommitLogDetailed, lines 90-129: the hashes `git log -<count>`
\* prints, newest first.
getCommitLogDetailed(hs, count) ==
  Take([k \in 1..Len(hs) |-> <<"commit", hs[Len(hs) + 1 - k]>>], count)

ListCount == 15

InteractiveCount == 10

\* What the user can type at the prompts: a line is the sequence of its
\* characters.
Answers == {<<"y">>, <<"Y", "E", "S">>, <<"n">>, <<>>}

Selections == {<<"q">>, <<"1">>, <<"9">>}

\* the lines typed at the selection prompt where the prompt is looked at
\* closely
Typed ==
  {<<"q">>, <<"Q">>, <<"q", "u", "i", "t">>, <<>>, <<"x">>, <<"0">>, <<"1">>,
   <<"2">>, <<"3">>, <<"9">>, <<"1", "0">>, <<"-", "1">>, <<"1", "x">>,
   <<" ", "1">>}

LowerCase(c) ==
  CASE c = "Y" -> "y" [] c = "E" -> "e" [] c = "S" -> "s" [] c = "Q" -> "q"
    [] OTHER -> c

toLowerCase(s) == [i \in 1..Len(s) |-> LowerCase(s[i])]

Digits == <<"0", "1", "2", "3", "4", "5", "6", "7", "8", "9">>

IsDigit(c) == \E d \in 1..Len(Digits) : Digits[d] = c

DigitValue(c) == (CHOOSE d \in 1..Len(Digits) : Digits[d] = c) - 1

NaN == [nan |-> TRUE, value |-> 0]

RECURSIVE parseDigits(_, _, _)
\* the number written by the digits of s from position i on, up to the
\* first character that is not a digit, after the digits that made acc
parseDigits(s, i, acc) ==
  IF i > Len(s) \/ ~IsDigit(s[i]) THEN acc
  ELSE parseDigits(s, i + 1, 10 * acc + DigitValue(s[i]))

RECURSIVE skipWhiteSpace(_, _)
skipWhiteSpace(s, i) ==
  IF i <= Len(s) /\ s[i] = " " THEN skipWhiteSpace(s, i + 1) ELSE i

\* parseInt(answer, 10): leading white space is skipped, a sign is read,
\* then the digits up to the first other character; NaN without a digit.
parseInt(s) ==
  LET i == skipWhiteSpace(s, 1)
      signed == i <= Len(s) /\ s[i] \in {"+", "-"}
      j == IF signed THEN i + 1 ELSE i
      magnitude == parseDigits(s, j, 0)
  IN  IF j > Len(s) \/ ~IsDigit(s[j]) THEN NaN
      ELSE [nan |-> FALSE,
            value |-> IF signed /\ s[i] = "-" THEN 0 - magnitude
                      ELSE magnitude]

\* the prompt is answered before it is read: every answer confirms
confirmAnyAnswer(answer) == TRUE

\* confirm, lines 16-28.
confirm(answer) == toLowerCase(answer) \in {<<"y">>, <<"y", "e", "s">>}

\* promptNumber, lines 33-54.
promptNumber(answer, max) ==
  LET num == parseInt(answer) IN
  IF toLowerCase(answer) \in {<<"q">>, <<"q", "u", "i", "t">>} THEN -1
  \* a comparison with NaN is false
  ELSE IF ~num.nan /\ num.value >= 1 /\ num.value <= max
    THEN num.value - 1
  ELSE -1

\* the working tree git writes for a set of tracked files
TreeOf(files) ==
  [p \in Paths |->
     [present |-> \E f \in files : f[1] = p,
      files |-> {f[2] : f \in {g \in files : g[1] = p}}]]

\* `git reset --hard <object>`: the position HEAD moves to, 0 when git
\* refuses because the object is not in the repository.
resetPosition(hs, object) ==
  IF object[1] \in {"commit", "tagobject"}
       /\ \E k \in 1..Len(hs) : hs[k] = object[2]
    THEN CHOOSE k \in 1..Len(hs) : hs[k] = object[2]
    ELSE 0

\* git.ts gitResetHard, lines 170-172, and gitPushForce, lines 177-179.
gitResetHard(result) == exec(result)

gitPushForce(result) == exec(result)

\* the command line of one rollback invocation
RollbackOption(list, tgt, steps, force) ==
  [list |-> list, target |-> tgt, steps |-> steps, force |-> force]

NoTarget == <<"none", 0>>

\* HEAD, the annotated tag, an unknown name, the id of the first commit
Targets == {HEAD, <<"tag", 0>>, <<"name", 0>>, <<"hash", 1>>}

RollbackOptions ==
  {RollbackOption(TRUE, NoTarget, 0, FALSE),
   RollbackOption(TRUE, HEAD, 1, TRUE)}
  \cup {RollbackOption(FALSE, tg, 0, f) : tg \in Targets, f \in BOOLEAN}
  \cup {RollbackOption(FALSE, NoTarget, n, f) :
          n \in {0, 1, MaxHistory}, f \in BOOLEAN}

\* line 158.
alreadyAtTarget(targetCommit, currentCommit) == targetCommit = currentCommit

\* rollbackCommand, lines 103-155: how the target commit is found.  The
\* result is what is in targetCommit, or the way the command ends early.
resolveTarget(opt, hs, tg, selection) ==
  LET done(msg, exit) == [ended |-> TRUE, exit |-> exit, message |-> msg,
                          targetCommit |-> NoTarget]
      found(c) == [ended |-> FALSE, exit |-> "none", message |-> "",
                   targetCommit |-> c]
      byRef(ref, msg) ==
        LET r == getCommitByRef(hs, tg, ref) IN
        IF r.outcome = "thrown" THEN done(msg, "threw") ELSE found(r.value)
      log == getCommitLogDetailed(hs, InteractiveCount)
      previousCommits == Tail(log)
      picked == promptNumber(selection, Len(previousCommits))
  IN  IF opt.target # NoTarget THEN byRef(opt.target, "invalid-ref")
      ELSE IF opt.steps # 0
        THEN byRef(<<"HEAD", opt.steps>>, "cannot-go-back")
      ELSE IF Len(log) <= 1 THEN done("no-previous", "threw")      \* line 130
      ELSE IF picked < 0 THEN done("cancelled", "returned")        \* line 146
      ELSE found(previousCommits[picked + 1])

\* the force push is issued before the reset
rollbackStepsPushFirst(targetCommit, resetOk, pushed) ==
  <<Ev("push-force", origin, pushed), Ev("reset", targetCommit, resetOk)>>

\* rollbackCommand, lines 183-189: the git commands of a rollback, in order.
rollbackSteps(targetCommit, resetOk, pushed) ==
  <<Ev("reset", targetCommit, resetOk), Ev("push-force", origin, pushed)>>

\* rollbackCommand, lines 179-189: the reset and the force push.  accepted
\* is whether origin takes the push.
resetAndPush(seen, targetCommit, accepted) ==
  LET k == resetPosition(hashes, targetCommit)
      reset == execSync(k # 0)
      hashes1 == IF k # 0 THEN SubSeq(hashes, 1, k) ELSE hashes
      commits1 == IF k # 0 THEN SubSeq(commits, 1, k) ELSE commits
      untracked == Tracked(work) \ (index \cup HeadTree)
      pushed == accepted /\ Len(hashes1) > 0 /\ remotes[origin] # 0
      push == execSync(pushed)
  IN
  /\ run' = [seen EXCEPT
               !.exit = IF gitResetHard(reset) = "thrown"
                             \/ gitPushForce(push) = "thrown"
                          THEN "threw" ELSE "returned",
               !.message = "rolled-back",
               !.ops = rollbackSteps(targetCommit, k # 0, pushed)]
  /\ hashes' = hashes1
  /\ commits' = commits1
  /\ index' = IF k # 0 THEN commits[k] ELSE index
  /\ work' = IF k # 0 THEN TreeOf(commits[k] \cup untracked) ELSE work
  /\ remoteHead' =
       IF pushed
         THEN [remoteHead EXCEPT ![remotes[origin]] = hashes1[Len(hashes1)]]
         ELSE remoteHead

\* the check for the deploy repository is lost
deployRepoNeverMissing(dotGit) == FALSE

\* rollbackCommand, line 71.
deployRepoMissing(dotGit) == ~dotGit

\* lines 126-144: the selection prompt is shown in an interactive rollback
\* when the log has a commit before the current one.
selects(mode, hs) ==
  mode = "interactive" /\ Len(getCommitLogDetailed(hs, InteractiveCount)) > 1

\* rollbackCommand, lines 65-195.  selection and answer are what the user
\* types at the two prompts when they are shown.
RollbackWith(options, selections) ==
  /\ \E opt \in options :
       LET mode == IF opt.list THEN "list"
                   ELSE IF opt.target # NoTarget THEN "target"
                   ELSE IF opt.steps # 0 THEN "steps" ELSE "interactive"
           base == [NoRun EXCEPT !.cmd = "rollback", !.mode = mode,
                                 !.force = opt.force]
           currentCommit == getCurrentCommit(hashes, tag)
           quiet(r) ==
             /\ run' = r
             /\ UNCHANGED <<work, index, commits, hashes, remoteHead>>
       IN
       IF deployRepoMissing(gitDir)
         THEN quiet([base EXCEPT !.exit = "threw",
                                 !.message = "repo-not-found"])
       ELSE IF opt.list                                            \* line 79
         THEN quiet([base EXCEPT
                       !.exit = "returned", !.message = "listed",
                       !.current = currentCommit,
                       !.listed = getCommitLogDetailed(hashes, ListCount)])
       ELSE \E selection \in IF selects(mode, hashes) THEN selections
                              ELSE {<<>>} :
         LET t == resolveTarget(opt, hashes, tag, selection)
             seen == [base EXCEPT !.current = currentCommit,
                                  !.targetCommit = t.targetCommit,
                                  !.selection = selection]
         IN
         IF t.ended
           THEN quiet([seen EXCEPT !.exit = t.exit, !.message = t.message])
         ELSE IF alreadyAtTarget(t.targetCommit, currentCommit)    \* line 158
           THEN quiet([seen EXCEPT !.exit = "returned",
                                   !.message = "already-at-target"])
         ELSE \E answer \in IF opt.force THEN {<<>>} ELSE Answers :
           LET prompted == [seen EXCEPT !.asked = ~opt.force,
                                        !.answer = answer]
           IN
           IF ~opt.force /\ ~confirm(answer)                       \* line 164
             THEN quiet([prompted EXCEPT !.exit = "returned",
                                         !.message = "cancelled"])
             ELSE \E accepted \in BOOLEAN :
                    resetAndPush(prompted, t.targetCommit, accepted)
  /\ UNCHANGED <<config, sourceExists, source, gitDir, remotes, gitInits,
                 minted, tag, targetDir>>

Rollback == RollbackWith(RollbackOptions, Selections)

(***************************************************************************)
(* Two invocations on one deploy repository.  A rollback is a process of   *)
(* its own: each git command it runs is one step, and between its reset    *)
(* (line 185) and its force push (line 189) it holds no lock, so a deploy  *)
(* started elsewhere can run its commands in between.                      *)
(***************************************************************************)
\* `gpd rollback --steps 1 --force` up to and with its git reset --hard.
RollbackReset ==
  /\ run.message # "reset-done"
  /\ ~deployRepoMissing(gitDir)
  /\ LET t == resolveTarget(RollbackOption(FALSE, NoTarget, 1, TRUE),
                            hashes, tag, <<>>)
         currentCommit == getCurrentCommit(hashes, tag)
         k == resetPosition(hashes, t.targetCommit)
         untracked == Tracked(work) \ (index \cup HeadTree)
     IN  /\ ~t.ended
         /\ ~alreadyAtTarget(t.targetCommit, currentCommit)
         /\ k # 0
         /\ gitResetHard(execSync(TRUE)) = "returned"
         /\ hashes' = SubSeq(hashes, 1, k)
         /\ commits' = SubSeq(commits, 1, k)
         /\ index' = commits[k]
         /\ work' = TreeOf(commits[k] \cup untracked)
         /\ run' = [NoRun EXCEPT
                      !.cmd = "rollback", !.mode = "steps", !.force = TRUE,
                      !.current = currentCommit,
                      !.targetCommit = t.targetCommit,
                      !.message = "reset-done",
                      !.ops = <<Ev("reset", t.targetCommit, TRUE)>>]
  /\ UNCHANGED <<config, sourceExists, source, gitDir, remotes, remoteHead,
                 gitInits, minted, tag, targetDir>>

\* The git push --force origin <branch> of that rollback: the branch as it
\* is now goes to origin.
RollbackPushForce ==
  /\ run.cmd = "rollback"
  /\ run.message = "reset-done"
  /\ \E accepted \in BOOLEAN :
       LET pushed == accepted /\ Len(hashes) > 0 /\ remotes[origin] # 0 IN
       /\ remoteHead' =
            IF pushed THEN [remoteHead EXCEPT ![remotes[origin]] = HeadHash]
            ELSE remoteHead
       /\ run' = [run EXCEPT
                    !.exit = IF gitPushForce(execSync(pushed)) = "thrown"
                               THEN "threw" ELSE "returned",
                    !.message = "rolled-back",
                    !.ops = @ \o <<Ev("push-force", origin, pushed)>>]
  /\ UNCHANGED <<config, sourceExists, source, gitDir, work, index, commits,
                 remotes, gitInits, hashes, minted, tag, targetDir>>

\* A deploy of another invocation while the rollback is between its two
\* commands: stageCommand, then the git add, git commit and git push of
\* releaseCommand (part_005:129-146).
DeployMeanwhile ==
  /\ run.message = "reset-done"
  /\ LET staged == stageCommand(config, sourceExists, source, Repo)
         index1 == gitAddAll(staged.repo.work)
     IN  /\ staged.exit = "returned"
         /\ hasChanges(gitDir, staged.repo.work, index, HeadTree)
         /\ commitCreated(index1, HeadTree, minted <= MaxHistory)
         /\ work' = staged.repo.work
         /\ index' = index1
         /\ commits' = Append(commits, index1)
         /\ hashes' = Append(hashes, minted + 1)
         /\ minted' = minted + 1
         /\ \E accepted \in BOOLEAN :
              remoteHead' =
                IF /\ accepted
                   /\ remotes[origin] # 0
                   /\ fastForward(remoteHead[remotes[origin]],
                                  Append(hashes, minted + 1))
                  THEN [remoteHead EXCEPT ![remotes[origin]] = minted + 1]
                  ELSE remoteHead
  /\ UNCHANGED <<config, sourceExists, source, gitDir, remotes, gitInits, tag,
                 targetDir, run>>

\* The user puts an annotated tag on the first release.
TagFirstRelease ==
  /\ gitDir
  /\ tag = 0
  /\ Len(hashes) >= 1
  /\ tag' = hashes[1]
  /\ run' = NoRun
  /\ UNCHANGED <<config, sourceExists, source, gitDir, work, index, commits,
                 remotes, remoteHead, gitInits, hashes, minted, targetDir>>

(***************************************************************************)
(* commands/install.ts: the server side.                                   *)
(*                                                                         *)
(* A payload is what one push put into the bare repository: its revision   *)
(* and the service entry of the .git-deploy.json it carries (NoConfig      *)
(* when the file is not in it).  targetDir records the payload at the head *)
(* of the bare repository, the payload checked out into the target         *)
(* directory, the .env file there, and for which revision the             *)
(* dependencies were installed and the process was restarted.              *)
(***************************************************************************)
\* the service entry of a .git-deploy.json; known is whether the file has
\* an entry for the service that is installed, env its variables as
\* <<key, value>> in the order of the file
InstallConfig(known, env, postDeploy, processManager) ==
  [known |-> known, env |-> env, postDeploy |-> postDeploy,
   processManager |-> processManager, pm2User |-> ""]

\* the entry with "pm2User": user
RunAs(cfg, user) == [cfg EXCEPT !.pm2User = user]

InstallConfigs ==
  {InstallConfig(TRUE, <<<<"PORT", "1">>, <<"HOST", "a">>>>, MaxHooks, "pm2"),
   InstallConfig(TRUE, <<>>, 0, "gpdd"),
   InstallConfig(TRUE, <<<<"PORT", "2">>>>, 0, "systemd"),
   InstallConfig(FALSE, <<>>, 0, "pm2")}

\* the file given with --config
ConfigPaths == {NoConfig, InstallConfig(TRUE, <<>>, 1, "pm2")}

NoEnvFile == [present |-> FALSE, lines |-> <<>>]

\* generateEnvContent, lines 15-19: one line key=value per entry.
generateEnvContent(env) ==
  [i \in 1..Len(env) |-> <<env[i][1], "=", env[i][2]>>]

\* the hooks run up to the first that fails
postDeployHooksStopAtFailure(n, hookOk) ==
  hookEvents("hook-post-deploy", n, hookOk)

\* lines 148-159: every hook runs, a failure is caught and logged.
postDeployHooks(n, hookOk) ==
  [i \in 1..n |-> Ev("hook-post-deploy", i, hookOk[i])]

NoPayload == [rev |-> 0, config |-> NoConfig]

\* a server nothing was set up on: no bare repository, no target directory
NoRepos ==
  [initialized |-> FALSE, bareExists |-> FALSE, exists |-> FALSE,
   dotGit |-> FALSE, bare |-> NoPayload, tree |-> NoPayload,
   env |-> NoEnvFile, logs |-> FALSE, deps |-> 0, running |-> 0,
   pid |-> FALSE]

\* a server with an empty bare repository and its clone
NewServer ==
  [NoRepos EXCEPT !.initialized = TRUE, !.bareExists = TRUE, !.exists = TRUE,
                  !.dotGit = TRUE]

\* a failed command is logged and the install goes on
installExecContinues(result) == "returned"

\* install.ts exec, lines 24-37: any failure of the command is thrown.
installExec(result) == IF result.status = 0 THEN "returned" ELSE "thrown"

\* the configuration is read before the checkout
installStepsConfigFirst ==
  <<"load-config", "checkout", "write-env", "mkdir-logs", "npm-install",
    "hook-post-deploy", "restart">>

\* installCommand, lines 93-170: the steps in the order of the code.
installSteps ==
  <<"checkout", "load-config", "write-env", "mkdir-logs", "npm-install",
    "hook-post-deploy", "restart">>

\* what the environment answers to one install
InstallInput(checkoutOk, configPath, npmOk, hookOk, pm) ==
  [checkoutOk |-> checkoutOk, configPath |-> configPath, npmOk |-> npmOk,
   hookOk |-> hookOk, pm |-> pm]

\* what the process manager answers: whether pm2 knows the process, the
\* exits of pm2 restart / gpdd reload, of pm2 start / the start of the
\* daemon, of pm2 save, and of the status command; whether gpdd is installed
\* and whether npm can install it; and GPD_PM2_USER as the hook set it
ManagerInput(known, restartOk, startOk, saveOk, statusOk, whichOk, globalOk, hookUser) ==
  [known |-> known, restartOk |-> restartOk, startOk |-> startOk,
   saveOk |-> saveOk, statusOk |-> statusOk, whichOk |-> whichOk,
   globalOk |-> globalOk, hookUser |-> hookUser]

\* lines 187/194 and 240/259: the command goes through execAsUser.
asUser(cfg, hookUser) ==
  IF cfg.pm2User # "" /\ ~(hookUser = cfg.pm2User) THEN 1 ELSE 0

\* restartWithPm2, lines 178-224.  The restart is one shell line,
\* `pm2 describe P && pm2 restart P --update-env || pm2 start <descriptor>`:
\* the start runs when describe or restart exits non-zero.  st is the state
\* of the install as in installStep.
restartWithPm2(st, pm) ==
  LET sudo == asUser(st.config, pm.hookUser)
      starts == ~pm.known \/ ~pm.restartOk
      line == (pm.known /\ pm.restartOk) \/ pm.startOk
      cmds == <<Ev("pm2-describe", sudo, pm.known)>>
                \o (IF pm.known THEN <<Ev("pm2-restart", sudo, pm.restartOk)>>
                    ELSE <<>>)
                \o (IF starts THEN <<Ev("pm2-start", sudo, pm.startOk)>>
                    ELSE <<>>)
                \o <<Ev("restart", sudo, line)>>
      fatal(msg, evs) == [st EXCEPT !.exit = "threw", !.message = msg,
                                    !.ops = st.ops \o evs]
      up == [st EXCEPT !.dir.running = st.dir.tree.rev]
  IN
  IF installExec(execSync(line)) = "thrown"                  \* lines 194-202
    THEN fatal("restart-failed", cmds)
  ELSE IF installExec(execSync(pm.saveOk)) = "thrown"        \* lines 204-213
    THEN [up EXCEPT !.exit = "threw", !.message = "save-failed",
                    !.ops = st.ops \o cmds
                              \o <<Ev("pm2-save", sudo, FALSE)>>]
  ELSE IF installExec(execSync(pm.statusOk)) = "thrown"      \* lines 215-223
    THEN [up EXCEPT !.exit = "threw", !.message = "status-failed",
                    !.ops = st.ops \o cmds
                              \o <<Ev("pm2-save", sudo, TRUE),
                                   Ev("pm2-status", sudo, FALSE)>>]
  ELSE [up EXCEPT !.ops = st.ops \o cmds
                            \o <<Ev("pm2-save", sudo, TRUE),
                                 Ev("pm2-status", sudo, TRUE)>>]

\* the daemon is taken to be stopped at every install
gpddNeverRunning(dir) == FALSE

\* lines 253-255: existsSync(join(targetDir, '.gpdd.pid'))
gpddRunning(dir) == dir.pid

\* restartWithGpdd, lines 230-292.  The cold start is sent to the
\* background with `&`, so its command line exits 0 whether or not the
\* daemon comes up; a daemon that is up keeps its PID marker file.
restartWithGpdd(st, pm) ==
  LET sudo == asUser(st.config, pm.hookUser)
      which == <<Ev("gpdd-which", 0, pm.whichOk)>>
                 \o (IF pm.whichOk THEN <<>>
                     ELSE <<Ev("gpdd-install", 0, pm.globalOk)>>)
      status == <<Ev("gpdd-status", sudo, pm.statusOk)>>
  IN
  IF ~pm.whichOk /\ installExec(execSync(pm.globalOk)) = "thrown" \* 245-250
    THEN [st EXCEPT !.exit = "threw", !.message = "gpdd-install-failed",
                    !.ops = @ \o which]
  ELSE IF gpddRunning(st.dir)                                \* lines 255-263
    THEN IF installExec(execSync(pm.restartOk)) = "thrown"
           THEN [st EXCEPT !.exit = "threw", !.message = "restart-failed",
                           !.ops = @ \o which
                                     \o <<Ev("gpdd-reload", sudo, FALSE),
                                          Ev("restart", sudo, FALSE)>>]
           ELSE [st EXCEPT !.dir.running = st.dir.tree.rev,
                           !.ops = @ \o which
                                     \o <<Ev("gpdd-reload", sudo, TRUE),
                                          Ev("restart", sudo, TRUE)>>
                                     \o status]
    ELSE [st EXCEPT                                          \* lines 264-278
            !.dir.running = IF pm.startOk THEN st.dir.tree.rev ELSE @,
            !.dir.pid = pm.startOk,
            !.ops = @ \o which
                      \o <<Ev("gpdd-start", sudo, pm.startOk),
                           Ev("restart", sudo, TRUE)>>
                      \o status]

\* One step of installCommand.  st is the target directory, the loaded
\* configuration, the commands issued so far and how the install stands.
installStep(step, st, inp) ==
  LET dir == st.dir
      cfg == st.config
      fatal(msg, evs) == [st EXCEPT !.exit = "threw", !.message = msg,
                                    !.ops = st.ops \o evs]
      \* line 99: options.configPath || join(targetDir, '.git-deploy.json')
      file == IF inp.configPath = NoConfig THEN dir.tree.config
              ELSE inp.configPath
      run1(ok) == installExec(execSync(ok))
  IN
  IF step = "checkout" THEN                                  \* lines 93-96
    LET ok == inp.checkoutOk /\ dir.bare # NoPayload /\ dir.exists IN
    IF run1(ok) = "thrown"
      THEN fatal("checkout-failed", <<Ev("checkout", 0, FALSE)>>)
      ELSE [st EXCEPT !.ops = @ \o <<Ev("checkout", 0, ok)>>,
                      !.dir.tree = IF ok THEN dir.bare ELSE @]
  ELSE IF step = "load-config" THEN                          \* lines 98-105
    IF file = NoConfig                                       \* line 100
      THEN fatal("config-not-found", <<>>)
    ELSE IF ~file.known
      THEN fatal("service-not-found", <<Ev("load-config", 0, FALSE)>>)
    ELSE [st EXCEPT !.ops = @ \o <<Ev("load-config", 0, TRUE)>>,
                    !.config = file]
  ELSE IF step = "write-env" THEN                            \* lines 117-126
    IF Len(cfg.env) > 0                                      \* line 120
      THEN [st EXCEPT !.ops = @ \o <<Ev("write-env", 0, TRUE)>>,
                      !.dir.env = [present |-> TRUE,
                                   lines |-> generateEnvContent(cfg.env)]]
      ELSE st
  ELSE IF step = "mkdir-logs" THEN                           \* lines 128-134
    [st EXCEPT !.dir.logs = TRUE]
  ELSE IF step = "npm-install" THEN                          \* lines 136-145
    IF run1(inp.npmOk) = "thrown"
      THEN fatal("npm-install-failed", <<Ev("npm-install", 0, FALSE)>>)
      ELSE [st EXCEPT !.ops = @ \o <<Ev("npm-install", 0, inp.npmOk)>>,
                      !.dir.deps = IF inp.npmOk THEN dir.tree.rev ELSE @]
  ELSE IF step = "hook-post-deploy" THEN                     \* lines 147-159
    [st EXCEPT !.ops = @ \o postDeployHooks(cfg.postDeploy, inp.hookOk)]
  ELSE                                                       \* lines 161-170
    IF cfg.processManager = "gpdd" THEN restartWithGpdd(st, inp.pm)
    ELSE IF cfg.processManager = "pm2" THEN restartWithPm2(st, inp.pm)
    ELSE [st EXCEPT !.message = "unsupported-process-manager"]

RECURSIVE installFrom(_, _, _, _)
\* the steps from number k on, until one of them throws
installFrom(steps, k, st, inp) ==
  IF k > Len(steps) \/ st.exit = "threw" THEN st
  ELSE installFrom(steps, k + 1, installStep(steps[k], st, inp), inp)

\* installCommand, lines 78-173.
installCommand(dir, hookEnv, inp) ==
  LET start == [dir |-> dir, config |-> NoConfig, ops |-> <<>>,
                exit |-> "returned", message |-> "installed"]
  IN  IF ~hookEnv                                             \* line 86
        THEN [start EXCEPT !.exit = "threw", !.message = "env-not-set"]
        ELSE installFrom(installSteps, 1, start, inp)

\* process managers that answer one way to every command of an install,
\* on a server where gpdd is installed
Managers == {ManagerInput(ok, ok, ok, ok, ok, TRUE, TRUE, "") : ok \in BOOLEAN}

\* One run of `gpd install` by the hook, hookEnv saying whether the hook
\* exported GPD_TARGET_DIR and GPD_GIT_DIR.
InstallWith(hookEnvs, checkouts, configPaths, npms, hooks, managers) ==
  /\ \E hookEnv \in hookEnvs, checkoutOk \in checkouts,
        configPath \in configPaths, npmOk \in npms, hookOk \in hooks,
        pm \in managers :
       LET r == installCommand(targetDir, hookEnv,
                  InstallInput(checkoutOk, configPath, npmOk, hookOk, pm))
       IN  /\ targetDir' = r.dir
           /\ run' = [NoRun EXCEPT !.cmd = "install", !.exit = r.exit,
                                   !.ops = r.ops, !.message = r.message,
                                   !.loaded = r.config,
                                   !.hookUser = pm.hookUser]
  /\ UNCHANGED <<config, sourceExists, source, gitDir, work, index, commits,
                 remotes, remoteHead, gitInits, hashes, minted, tag>>

\* A push reaches the bare repository of the server: one of at most cap
\* pushes, carrying one of the given service entries.
ReceiveWithin(cap, configs) ==
  /\ targetDir.bareExists
  /\ targetDir.bare.rev < cap
  /\ \E c \in configs :
       targetDir' = [targetDir EXCEPT
                       !.bare = [rev |-> targetDir.bare.rev + 1, config |-> c]]
  /\ run' = NoRun
  /\ UNCHANGED <<config, sourceExists, source, gitDir, work, index, commits,
                 remotes, remoteHead, gitInits, hashes, minted, tag>>

Install ==
  InstallWith(BOOLEAN, BOOLEAN, ConfigPaths, BOOLEAN,
              [1..MaxHooks -> BOOLEAN], Managers)

Receive == ReceiveWithin(MaxPushes, InstallConfigs \cup {NoConfig})

(***************************************************************************)
(* commands/init.ts: the bare repository and its clone are set up over     *)
(* ssh.  Each step is one command line sent with sshExec, whose failure    *)
(* exec swallows.                                                          *)
(***************************************************************************)
\* the target directory is always cleared and cloned again
targetNeverGitRepo(dir) == FALSE

\* line 56, [ -d "${targetDir}/.git" ]
targetIsGitRepo(dir) == dir.exists /\ dir.dotGit

\* initCommand, lines 16-66.  sshOk is whether the host is reached, cloneOk
\* whether git clone can write the target directory.
initCommand(dir, sshOk, cloneOk) ==
  LET \* lines 35-47: mkdir -p, git init --bare on a new or an existing
      \* repository
      bared == [dir EXCEPT !.initialized = TRUE,
                           !.bareExists = @ \/ sshOk]
      \* lines 49-60
      kept == sshOk /\ targetIsGitRepo(bared)
      removed == [bared EXCEPT !.exists = FALSE, !.dotGit = FALSE,
                               !.tree = NoPayload, !.env = NoEnvFile,
                               !.logs = FALSE, !.deps = 0, !.pid = FALSE]
      cloned == [removed EXCEPT !.exists = TRUE, !.dotGit = TRUE,
                                !.tree = bared.bare]
  IN  [dir |-> IF ~sshOk \/ kept THEN bared
               ELSE IF cloneOk THEN cloned ELSE removed,
       ops |-> <<Ev("init-bare", 0, sshOk)>>
                 \o (IF sshOk /\ ~kept
                       THEN <<Ev("rm-rf", 0, TRUE), Ev("clone", 0, cloneOk)>>
                       ELSE <<>>),
       exit |-> exec(execSync(sshOk /\ (kept \/ cloneOk)))]

InitServer ==
  /\ \E sshOk \in BOOLEAN, cloneOk \in BOOLEAN :
       LET r == initCommand(targetDir, sshOk, cloneOk)
       IN  /\ targetDir' = r.dir
           /\ run' = [NoRun EXCEPT !.cmd = "init", !.exit = r.exit,
                                   !.ops = r.ops, !.message = "initialized"]
  /\ UNCHANGED <<config, sourceExists, source, gitDir, work, index, commits,
                 remotes, remoteHead, gitInits, hashes, minted, tag>>

(***************************************************************************)
(* commands/deploy.ts: deployCommand without --dry-run awaits               *)
(* ensureInitialized, stageCommand and releaseCommand in turn.  Each await *)
(* is a step; run.deploy is where the deployCommand stands.                *)
(***************************************************************************)
\* commands/init.ts ensureInitialized: the server is set up as by
\* initCommand when it is reached, and the call rejects when it is not.
ensureInitialized(dir, reachable) ==
  IF reachable
    THEN [dir |-> initCommand(dir, TRUE, TRUE).dir, exit |-> "returned"]
    ELSE [dir |-> dir, exit |-> "threw"]

\* the release is run with --skip-push as well
deployAlwaysReleases(skipPush) == TRUE

\* line 57: if (!options.skipPush)
deployReleases(skipPush) == ~skipPush

\* deployCommand, lines 24-50: a deploy is started and has awaited
\* ensureInitialized.
DeployStart ==
  /\ run.deploy.pc \notin {"initialized", "staged"}
  /\ \E skipPush \in BOOLEAN, reachable \in BOOLEAN :
       LET r == ensureInitialized(targetDir, reachable) IN
       /\ targetDir' = r.dir
       /\ run' = [NoRun EXCEPT
                    !.cmd = "deploy", !.exit = r.exit,
                    !.message = IF r.exit = "returned" THEN "initialized"
                                ELSE "init-failed",
                    !.deploy = [pc |-> IF r.exit = "returned"
                                         THEN "initialized" ELSE "failed",
                                skipPush |-> skipPush,
                                calls |-> <<[cmd |-> "init",
                                             exit |-> r.exit]>>]]
  /\ UNCHANGED <<config, sourceExists, source, gitDir, work, index, commits,
                 remotes, remoteHead, gitInits, hashes, minted, tag>>

\* line 53
DeployStage == run.deploy.pc = "initialized" /\ Stage

\* lines 57-62
DeployRelease ==
  /\ run.deploy.pc = "staged"
  /\ deployReleases(run.deploy.skipPush)
  /\ Release

\* lines 63-66: with --skip-push the command ends after the stage.
DeploySkipPush ==
  /\ run.deploy.pc = "staged"
  /\ ~deployReleases(run.deploy.skipPush)
  /\ run' = [run EXCEPT !.cmd = "deploy", !.message = "skipped-push",
                        !.deploy.pc = "skipped"]
  /\ UNCHANGED <<config, sourceExists, source, gitDir, work, index, commits,
                 remotes, remoteHead, gitInits, hashes, minted, tag, targetDir>>

(***************************************************************************)
(* templates/post-receive.sh: the hook of the bare repository.            *)
(*                                                                         *)
(* A ref name is the sequence of its path segments.                        *)
(***************************************************************************)
RefNames ==
  {<<"refs", "heads", "main">>, <<"refs", "heads", "master">>,
   <<"refs", "heads", "dev">>, <<"refs", "tags", "main">>}

\* the pushes of one git push, as the hook reads them from stdin
PushedRefs == UNION {[1..n -> RefNames] : n \in 1..MaxRefs}

\* line 25, sed 's|refs/heads/||': the first refs/heads/ is cut out.
stripHeads(refname) ==
  LET at == {i \in 1..(Len(refname) - 2) :
               refname[i] = "refs" /\ refname[i + 1] = "heads"}
  IN  IF at = {} THEN refname
      ELSE LET i == CHOOSE k \in at : \A l \in at : k <= l
           IN  SubSeq(refname, 1, i - 1) \o SubSeq(refname, i + 2, Len(refname))

\* every branch is deployed
isAnyBranch(branch) == Len(branch) = 1

\* line 28: the branch is main or master.
isDeployBranch(branch) == branch \in {<<"main">>, <<"master">>}

\* what the commands of the hook exit with
HookInput(chownOk, cdOk, npmOk, restartOk) ==
  [chownOk |-> chownOk, cdOk |-> cdOk, npmOk |-> npmOk, restartOk |-> restartOk]

\* all commands succeed, or one of them fails
HookInputs ==
  {HookInput(TRUE, TRUE, TRUE, TRUE), HookInput(FALSE, TRUE, TRUE, TRUE),
   HookInput(TRUE, FALSE, TRUE, TRUE), HookInput(TRUE, TRUE, FALSE, TRUE),
   HookInput(TRUE, TRUE, TRUE, FALSE)}

\* lines 24-53, the body of the loop for ref number i.  Under set -e the
\* script ends at the first plain command that fails; a pipeline into tee
\* and a command followed by || true do not end it.
postReceiveRef(i, refname, st, inp) ==
  LET dir == st.dir
      extracted == dir.bare # NoPayload /\ dir.exists
  IN
  IF ~isDeployBranch(stripHeads(refname))
    THEN [st EXCEPT !.ops = @ \o <<Ev("ignored", i, TRUE)>>]
  ELSE IF ~inp.chownOk
    THEN [st EXCEPT !.exit = "threw",
                    !.ops = @ \o <<Ev("extract", i, extracted),
                                   Ev("chown", i, FALSE)>>,
                    !.dir.tree = IF extracted THEN dir.bare ELSE @]
  ELSE IF ~inp.cdOk
    THEN [st EXCEPT !.exit = "threw",
                    !.ops = @ \o <<Ev("extract", i, extracted),
                                   Ev("chown", i, TRUE)>>,
                    !.dir.tree = IF extracted THEN dir.bare ELSE @]
  ELSE [st EXCEPT !.ops = @ \o <<Ev("extract", i, extracted),
                                 Ev("chown", i, TRUE),
                                 Ev("npm-install", i, inp.npmOk),
                                 Ev("restart", i, inp.restartOk)>>,
                  !.dir.tree = IF extracted THEN dir.bare ELSE @,
                  !.dir.deps = IF inp.npmOk /\ extracted THEN dir.bare.rev ELSE @,
                  !.dir.running = IF inp.restartOk /\ extracted
                                    THEN dir.bare.rev ELSE @]

RECURSIVE postReceiveFrom(_, _, _, _)
\* line 24, while read oldrev newrev refname
postReceiveFrom(refs, i, st, inp) ==
  IF i > Len(refs) \/ st.exit = "threw" THEN st
  ELSE postReceiveFrom(refs, i + 1, postReceiveRef(i, refs[i], st, inp), inp)

postReceive(dir, refs, inp) ==
  postReceiveFrom(refs, 1, [dir |-> dir, ops |-> <<>>, exit |-> "returned"], inp)

PostReceive ==
  /\ \E refs \in PushedRefs : \E inp \in HookInputs :
       LET r == postReceive(targetDir, refs, inp)
       IN  /\ targetDir' = r.dir
           /\ run' = [NoRun EXCEPT !.cmd = "post-receive", !.exit = r.exit,
                                   !.ops = r.ops, !.refs = refs]
  /\ UNCHANGED <<config, sourceExists, source, gitDir, work, index, commits,
                 remotes, remoteHead, gitInits, hashes, minted, tag>>

(***************************************************************************)
(* config/loader.ts: validation of the service entry.                      *)
(*                                                                         *)
(* A string is the sequence of its characters.  A service entry of the     *)
(* file has a processName and the keys server and servers, each of which   *)
(* may be missing; pm2User and group are not configured.                   *)
(***************************************************************************)
Alnum == {"a", "Z", "0"}

\* line 157, /^[a-zA-Z0-9._@:-]+$/
VALID_HOST_PATTERN(value) ==
  Len(value) > 0 /\ \A i \in 1..Len(value) :
                      value[i] \in Alnum \cup {".", "_", "@", ":", "-"}

\* line 159, /^[a-zA-Z0-9_-]+$/
VALID_PROCESS_NAME_PATTERN(value) ==
  Len(value) > 0 /\ \A i \in 1..Len(value) : value[i] \in Alnum \cup {"_", "-"}

\* line 160, /^[a-zA-Z0-9_./-]+$/
VALID_PATH_PATTERN(value) ==
  Len(value) > 0 /\ \A i \in 1..Len(value) :
                      value[i] \in Alnum \cup {"_", ".", "/", "-"}

ServerConfig(host, targetDirPath, bareRepo) ==
  [host |-> host, targetDir |-> targetDirPath, bareRepo |-> bareRepo]

\* the strings of up to MaxPath characters a path is written with
PathStrings == UNION {[1..n -> {"/", "a", ";"}] : n \in 1..MaxPath}

FileServers ==
  {ServerConfig(h, t, b) :
     h \in {<<"u", "@", "h">>, <<"h", ";">>},
     t \in PathStrings,
     b \in {<<"/", "g">>, <<"$", "(", "x", ")">>}}

\* the service entries a .git-deploy.json may hold
Files ==
  [processName : {<<"a", "-", "0">>, <<"a", " ", "b">>},
   server : {NoServer} \cup FileServers,
   servers : {NoServers} \cup
             {[defined |-> TRUE, items |-> l] :
                l \in {<<>>} \cup {<<s>> : s \in FileServers}}]

\* lines 187-196: the servers validateServiceConfig looks at.  An empty
\* array is truthy.
validatedServers(file) ==
  IF file.servers.defined THEN file.servers.items
  ELSE IF file.server # NoServer THEN <<file.server>>
  ELSE <<>>

\* validateServiceConfig, lines 175-197: TRUE when no validateValue throws.
validateServiceConfig(file) ==
  /\ VALID_PROCESS_NAME_PATTERN(file.processName)
  /\ \A i \in 1..Len(validatedServers(file)) :
       LET server == validatedServers(file)[i] IN
         /\ VALID_HOST_PATTERN(server.host)
         /\ VALID_PATH_PATTERN(server.targetDir)
         /\ VALID_PATH_PATTERN(server.bareRepo)

\* getServiceConfig, lines 202-215: the entry as it is in the file, or an
\* exception.
getServiceConfig(file) ==
  IF validateServiceConfig(file)
    THEN [exit |-> "returned", message |-> "ok"]
    ELSE [exit |-> "threw", message |-> "unsafe-characters"]

\* .git-deploy.json is written.
EditConfig ==
  /\ run = NoRun
  /\ \E file \in Files : run' = [NoRun EXCEPT !.file = file]
  /\ UNCHANGED <<config, sourceExists, source, gitDir, work, index, commits,
                 remotes, remoteHead, gitInits, hashes, minted, tag, targetDir>>

\* A command loads the service entry of the file.
LoadConfig ==
  /\ run.file # NoFile
  /\ run.cmd = "none"
  /\ LET r == getServiceConfig(run.file)
     IN  run' = [run EXCEPT !.cmd = "getServiceConfig", !.exit = r.exit,
                            !.message = r.message]
  /\ UNCHANGED <<config, sourceExists, source, gitDir, work, index, commits,
                 remotes, remoteHead, gitInits, hashes, minted, tag, targetDir>>

(***************************************************************************)
(* commands/autostart.ts getIpcPort.  The hash is a 32-bit integer, kept   *)
(* as its two 16-bit halves [hi, lo] of the two's complement; what leaves  *)
(* the 32 bits is a double, kept as a sign and the halves of its           *)
(* magnitude, which can be 2^31.                                           *)
(***************************************************************************)
Half == 65536

IpcPortBase == 50000

IpcPortCount == 10000

NameChars == <<"G", "y", "d", "Z", "_">>

\* processName.charCodeAt(i)
charCodeAt(c) ==
  CASE c = "G" -> 71 [] c = "y" -> 121 [] c = "d" -> 100 [] c = "Z" -> 90
    [] c = "_" -> 95

ProcessNames ==
  UNION {[1..n -> {NameChars[k] : k \in 1..Len(NameChars)}] : n \in 1..MaxName}

\* hash << 5: the bits that leave the 32 are lost
shiftLeft5(w) ==
  [hi |-> (w.hi * 32 + (w.lo * 32) \div Half) % Half,
   lo |-> (w.lo * 32) % Half]

\* line 190, (a - b) + code followed by `hash & hash`: the 32 low bits of
\* the sum
hashStep(w, code) ==
  LET a == shiftLeft5(w)
      lo == a.lo - w.lo + code
      hi == a.hi - w.hi + (IF lo < 0 THEN -1 ELSE lo \div Half)
  IN  [hi |-> (hi + 2 * Half) % Half, lo |-> (lo + Half) % Half]

RECURSIVE hashFrom(_, _, _)
\* lines 189-192: the loop from character i on
hashFrom(processName, i, hash) ==
  IF i > Len(processName) THEN hash
  ELSE hashFrom(processName, i + 1,
                hashStep(hash, charCodeAt(processName[i])))

\* the 32-bit integer as a number
toNumber(w) ==
  IF w.hi < Half \div 2 THEN [neg |-> FALSE, hi |-> w.hi, lo |-> w.lo]
  ELSE [neg |-> TRUE,
        hi |-> Half - w.hi - (IF w.lo = 0 THEN 0 ELSE 1),
        lo |-> (Half - w.lo) % Half]

\* the sign is kept
MathAbsKeepsSign(n) == n

\* Math.abs on a double
MathAbs(n) == [n EXCEPT !.neg = FALSE]

\* n % d of JavaScript: the sign of the result is the sign of n
remainder(n, d) ==
  LET r == ((n.hi % d) * (Half % d) + n.lo) % d IN
  IF n.neg THEN 0 - r ELSE r

\* getIpcPort, lines 186-194.
getIpcPort(processName) ==
  IpcPortBase
    + remainder(MathAbs(toNumber(hashFrom(processName, 1,
                                          [hi |-> 0, lo |-> 0]))),
                IpcPortCount)

\* The IPC port of a service is asked for.
GetIpcPort ==
  /\ run = NoRun
  /\ \E processName \in ProcessNames :
       run' = [NoRun EXCEPT
                 !.cmd = "getIpcPort", !.exit = "returned",
                 !.file = [NoFile EXCEPT !.processName = processName],
                 !.port = getIpcPort(processName)]
  /\ UNCHANGED <<config, sourceExists, source, gitDir, work, index, commits,
                 remotes, remoteHead, gitInits, hashes, minted, tag, targetDir>>

(***************************************************************************)
(* The environment: the project is built, rebuilt or removed.              *)
(***************************************************************************)
SourceTrees ==
  {t \in [Paths -> UNION {SourceNodes(a) : a \in ArtifactSet}] :
     /\ \A a \in ArtifactSet : t[a] \in SourceNodes(a)
     /\ t[CONFIG_FILENAME] = Absent}

\* The builds of two releases: the second adds a file to dist.
ReleaseTrees ==
  {[NoTree EXCEPT !["dist"] = d, !["package.json"] = FileNode] :
     d \in {Dir({"index.js"}), Dir({"index.js", "util.js"})}}

BuildOf(trees) ==
  /\ \E ex \in BOOLEAN : \E t \in IF ex THEN trees ELSE {NoTree} :
       /\ <<ex, t>> # <<sourceExists, source>>
       /\ sourceExists' = ex
       /\ source' = t
  /\ run' = NoRun
  /\ UNCHANGED <<config, gitDir, work, index, commits, remotes, remoteHead,
                 gitInits, hashes, minted, tag, targetDir>>

Build == BuildOf(SourceTrees)

InitWith(configs, server) ==
  /\ config \in configs
  /\ sourceExists \in BOOLEAN
  /\ source \in SourceTrees
  /\ ~sourceExists => source = NoTree
  /\ gitDir = FALSE
  /\ work = NoTree
  /\ index = {}
  /\ commits = <<>>
  /\ remotes = [n \in RemoteNames |-> 0]
  /\ remoteHead = [s \in ServerIds |-> 0]
  /\ gitInits = 0
  /\ hashes = <<>>
  /\ minted = 0
  /\ tag = 0
  /\ targetDir = server
  /\ run = NoRun

Init == InitWith({c \in Configs : ~getServersThrows(c)}, NewServer)

Next == Build \/ Stage \/ Release

Spec == Init /\ [][Next]_vars

(***************************************************************************)
(* Releases and rollbacks of a service with one server and no hooks, over  *)
(* a history of up to MaxHistory commits.                                  *)
(***************************************************************************)
InitRollback ==
  /\ Init
  /\ config = ServiceConfig(1, <<>>, NoHooks)
  /\ sourceExists <=> source \in ReleaseTrees

NextRollback ==
  \/ BuildOf(ReleaseTrees)
  \/ Stage
  \/ ReleaseWithin(MaxHistory)
  \/ TagFirstRelease
  \/ Rollback

SpecRollback == InitRollback /\ [][NextRollback]_vars

(***************************************************************************)
(* The previews next to the commands they preview, for a service with one  *)
(* server and for one configured with a "servers" list only.               *)
(***************************************************************************)
InitDryRun ==
  /\ Init
  /\ config \in {ServiceConfig(1, <<>>, NoHooks),
                  ServiceConfig(0, AllServers, WithHooks)}

NextDryRun ==
  \/ Build
  \/ Stage
  \/ Release
  \/ StageDryRun
  \/ ReleaseDryRun
  \/ DeployDryRun

SpecDryRun == InitDryRun /\ [][NextDryRun]_vars

(***************************************************************************)
(* The server: pushes arrive and the post-receive hook runs the install.   *)
(***************************************************************************)
InitInstall ==
  /\ Init
  /\ config = ServiceConfig(1, <<>>, NoHooks)
  /\ ~sourceExists

NextInstall == Receive \/ Install

SpecInstall == InitInstall /\ [][NextInstall]_vars

(***************************************************************************)
(* Releases of a service whose servers are changed in .git-deploy.json.    *)
(***************************************************************************)
\* one server, another server, and a list of servers next to the first
RemoteConfigs ==
  {ServiceConfig(1, <<>>, NoHooks), ServiceConfig(MaxServers, <<>>, NoHooks),
   ServiceConfig(1, AllServers, NoHooks)}

\* The servers of the service are edited in .git-deploy.json.
Reconfigure ==
  /\ \E c \in RemoteConfigs \ {config} : config' = c
  /\ run' = NoRun
  /\ UNCHANGED <<sourceExists, source, gitDir, work, index, commits, remotes,
                 remoteHead, gitInits, hashes, minted, tag, targetDir>>

InitRemotes ==
  /\ Init
  /\ config \in RemoteConfigs
  /\ (sourceExists <=> source \in ReleaseTrees)

NextRemotes == BuildOf(ReleaseTrees) \/ Stage \/ Release \/ Reconfigure

SpecRemotes == InitRemotes /\ [][NextRemotes]_vars

(***************************************************************************)
(* A server from its first init on: pushes, installs and further inits.    *)
(***************************************************************************)
InitInit ==
  /\ InitWith({ServiceConfig(1, <<>>, NoHooks)}, NoRepos)
  /\ ~sourceExists

NextInit == InitServer \/ Receive \/ Install

SpecInit == InitInit /\ [][NextInit]_vars

(***************************************************************************)
(* Releases of a service with notification channels.                       *)
(***************************************************************************)
NotificationConfigs ==
  {[c \in Channels |-> IF c = "slack" THEN Channel(TRUE)
                        ELSE IF c = "webhook" THEN Channel(FALSE)
                        ELSE NoChannel],
   [c \in Channels |-> IF c = "discord" THEN Channel(TRUE) ELSE Channel(FALSE)]}

InitNotify ==
  /\ InitWith({[ServiceConfig(1, <<>>, [preDeploy |-> 1, postDeployLocal |-> 0])
                   EXCEPT !.notifications = n] : n \in NotificationConfigs},
              NewServer)
  /\ (sourceExists <=> source \in ReleaseTrees)

NextNotify == BuildOf(ReleaseTrees) \/ Stage \/ Release

SpecNotify == InitNotify /\ [][NextNotify]_vars

(***************************************************************************)
(* Deploys and a rollback that run as separate processes.                  *)
(***************************************************************************)
NextConcurrent ==
  \/ run.message # "reset-done" /\ BuildOf(ReleaseTrees)
  \/ run.message # "reset-done" /\ Stage
  \/ run.message # "reset-done" /\ ReleaseWithin(MaxHistory)
  \/ RollbackReset
  \/ DeployMeanwhile
  \/ RollbackPushForce

SpecConcurrent == InitRollback /\ [][NextConcurrent]_vars

(***************************************************************************)
(* A service on every server: releases, and rollbacks whose two git        *)
(* commands run one after the other, with room for one release more after  *)
(* a rollback.                                                             *)
(***************************************************************************)
InitRedeploy ==
  /\ InitWith({ServiceConfig(1, AllServers, NoHooks)}, NewServer)
  /\ sourceExists <=> source \in ReleaseTrees

NextRedeploy ==
  \/ run.message # "reset-done" /\ BuildOf(ReleaseTrees)
  \/ run.message # "reset-done" /\ Stage
  \/ run.message # "reset-done" /\ ReleaseWithin(MaxHistory + 1)
  \/ RollbackReset
  \/ RollbackPushForce

SpecRedeploy == InitRedeploy /\ [][NextRedeploy]_vars

(***************************************************************************)
(* Installs whose checkout, npm install and hooks succeed, under every     *)
(* answer of the process manager: pm2 without and with a pm2User, and      *)
(* gpdd.                                                                   *)
(***************************************************************************)
Users == {"", "app", "ci"}

ManagerInputs ==
  {ManagerInput(known, restartOk, startOk, saveOk, statusOk, whichOk,
                globalOk, hookUser) :
     known \in BOOLEAN, restartOk \in BOOLEAN, startOk \in BOOLEAN,
     saveOk \in BOOLEAN, statusOk \in BOOLEAN, whichOk \in BOOLEAN,
     globalOk \in BOOLEAN, hookUser \in Users}

ManagedConfigs ==
  {InstallConfig(TRUE, <<>>, 0, "pm2"),
   RunAs(InstallConfig(TRUE, <<>>, 0, "pm2"), "app"),
   RunAs(InstallConfig(TRUE, <<>>, 0, "gpdd"), "app")}

NextManager ==
  \/ ReceiveWithin(MaxPushes, ManagedConfigs)
  \/ InstallWith({TRUE}, {TRUE}, {NoConfig}, {TRUE},
                 {[i \in 1..MaxHooks |-> TRUE]}, ManagerInputs)

SpecManager == InitInstall /\ [][NextManager]_vars

(***************************************************************************)
(* Deploys of a service with one server, on a server nothing was set up    *)
(* on, while the project is built and rebuilt between them.                *)
(***************************************************************************)
InitDeploy == InitWith({ServiceConfig(1, <<>>, NoHooks)}, NoRepos)

NextDeploy ==
  \/ run.deploy.pc \notin {"initialized", "staged"} /\ Build
  \/ DeployStart
  \/ DeployStage
  \/ DeployRelease
  \/ DeploySkipPush

SpecDeploy == InitDeploy /\ [][NextDeploy]_vars

(***************************************************************************)
(* Releases and interactive rollbacks, with every line of Typed at the     *)
(* selection prompt.                                                       *)
(***************************************************************************)
InteractiveOptions ==
  {RollbackOption(FALSE, NoTarget, 0, f) : f \in BOOLEAN}

NextInteractive ==
  \/ BuildOf(ReleaseTrees)
  \/ Stage
  \/ ReleaseWithin(MaxHistory)
  \/ RollbackWith(InteractiveOptions, Typed)

SpecInteractive == InitRollback /\ [][NextInteractive]_vars

NextIpcPort == GetIpcPort

SpecIpcPort == InitInstall /\ [][NextIpcPort]_vars

NextLoader == EditConfig \/ LoadConfig

SpecLoader == InitInstall /\ [][NextLoader]_vars

\* the hook does the same for every push: one push is followed
NextHook ==
  \/ ReceiveWithin(1, {InstallConfig(TRUE, <<>>, 0, "pm2")})
  \/ PostReceive

SpecHook == InitInstall /\ [][NextHook]_vars

(***************************************************************************)
(* Reading the record of the last invocation.                              *)
(***************************************************************************)
NumServers == Len(getServers(config))

Events(r, op) == {k \in 1..Len(r.ops) : r.ops[k].op = op}

\* the invocation was a release that got as far as pushing
PushPhase(r) ==
  r.cmd = "release" /\ r.message \in {"released", "released-with-errors"}

PushTried(r, i) == \E k \in Events(r, "push") : r.ops[k].arg = i

PushOk(r, i) == \E k \in Events(r, "push") : r.ops[k].arg = i /\ r.ops[k].ok

PushFailed(r, i) ==
  \E k \in Events(r, "push") : r.ops[k].arg = i /\ ~r.ops[k].ok

PreHookFailed(r) == \E k \in Events(r, "hook-pre") : ~r.ops[k].ok

(***************************************************************************)
(* C1: a release over N servers that reaches the push phase attempts one   *)
(* push to every one of the N servers, also to those that come after a     *)
(* server whose push failed.                                               *)
(***************************************************************************)
C1_EveryServerPushed ==
  PushPhase(run) =>
    /\ \A i \in 1..NumServers : PushTried(run, i)
    /\ Cardinality(Events(run, "push")) = NumServers

C1_Witness ==
  /\ PushPhase(run)
  /\ NumServers >= 2
  /\ PushFailed(run, 1)
  /\ PushOk(run, NumServers)

(***************************************************************************)
(* C2: after the push phase the labels recorded as failed are exactly the  *)
(* servers whose git push exited non-zero.                                 *)
(***************************************************************************)
C2_FailedExactlyRecorded ==
  PushPhase(run) =>
    {run.failedServers[k] : k \in 1..Len(run.failedServers)}
      = {getServers(config)[i] : i \in {j \in 1..NumServers : PushFailed(run, j)}}

(***************************************************************************)
(* C3: a release that finds no changes makes no commit and no push and     *)
(* ends successfully reporting no changes; a release whose commit step     *)
(* finds nothing to commit makes no push and is not an error.              *)
(***************************************************************************)
C3_NothingToReleaseNoPush ==
  run.cmd = "release" =>
    /\ run.message = "no-changes" =>
         /\ Events(run, "add") \cup Events(run, "commit")
              \cup Events(run, "push") = {}
         /\ run.exit = "returned"
    /\ \A c \in Events(run, "commit") :
         run.ops[c].arg = 1 =>
           /\ ~run.ops[c].ok
           /\ Events(run, "push") = {}
           /\ run.exit = "returned"

(***************************************************************************)
(* C4: in one release `git add -A` precedes the commit and the commit      *)
(* precedes every push; a push is issued only after the commit step of the *)
(* same invocation succeeded.                                              *)
(***************************************************************************)
C4_CommitPrecedesPush ==
  run.cmd = "release" =>
    \A k \in Events(run, "push") :
      \E a \in Events(run, "add"), c \in Events(run, "commit") :
        a < c /\ c < k /\ run.ops[c].ok

(***************************************************************************)
(* C5: when a preDeploy hook exits non-zero the release is aborted: no     *)
(* later preDeploy hook runs, nothing is staged, committed or pushed, and  *)
(* the deploy repository and the servers are left as they were.            *)
(***************************************************************************)
C5_PreHookFailureAborts ==
  [][ (run'.cmd = "release" /\ PreHookFailed(run')) =>
        /\ \A k \in Events(run', "hook-pre") :
             ~run'.ops[k].ok => \A j \in Events(run', "hook-pre") : j <= k
        /\ Events(run', "add") \cup Events(run', "commit")
             \cup Events(run', "push") \cup Events(run', "hook-post") = {}
        /\ UNCHANGED <<gitDir, work, index, commits, remotes, remoteHead>>
    ]_vars

C5_Witness ==
  /\ run.cmd = "release"
  /\ config.preDeploy >= 2
  /\ run.ops[1] = Ev("hook-pre", 1, FALSE)
  /\ run.message = "hooks-failed"
  /\ hasChanges(gitDir, work, index, HeadTree)

(***************************************************************************)
(* C6: the postDeployLocal hooks run exactly when at least one push of the *)
(* release succeeded, a partial success included.                          *)
(***************************************************************************)
C6_PostHooksIffSomePushSucceeded ==
  (run.cmd = "release" /\ config.postDeployLocal > 0) =>
    (Events(run, "hook-post") # {}
       <=> (PushPhase(run) /\ \E i \in 1..NumServers : PushOk(run, i)))

(***************************************************************************)
(* C7: a release that reaches the push phase fails (non-zero exit) exactly *)
(* when no push succeeded; with some pushes succeeded and some failed it   *)
(* exits zero with a warning that names the failed servers.                *)
(***************************************************************************)
C7_FailsIffNoPushSucceeded ==
  PushPhase(run) =>
    /\ run.exit = "threw" <=> ~ \E i \in 1..NumServers : PushOk(run, i)
    /\ ( (\E i \in 1..NumServers : PushOk(run, i))
         /\ (\E i \in 1..NumServers : PushFailed(run, i)) ) =>
         /\ run.exit = "returned"
         /\ run.message = "released-with-errors"
         /\ \A i \in 1..NumServers :
              PushFailed(run, i) =>
                \E k \in 1..Len(run.failedServers) :
                  run.failedServers[k] = getServers(config)[i]

(***************************************************************************)
(* C8: with the source directory in place, stage succeeds exactly when at  *)
(* least one configured artifact exists in the source; every present       *)
(* artifact is copied and counted, every absent one is only warned about.  *)
(***************************************************************************)
PresentArtifacts == {a \in ArtifactSet : exists(source[a])}

C8_StageSucceedsIffArtifactPresent ==
  (run.cmd = "stage" /\ sourceExists) =>
    /\ run.exit = "returned" <=> PresentArtifacts # {}
    /\ run.exit = "returned" =>
         /\ run.copied = PresentArtifacts
         /\ run.warned = ArtifactSet \ PresentArtifacts
         /\ \A a \in PresentArtifacts : work[a] = source[a]

(***************************************************************************)
(* C9: stage is idempotent: after a stage, staging the same source again   *)
(* ends the same way and leaves the deploy repository with the same files, *)
(* the same remotes and the same changes for a release to find.            *)
(***************************************************************************)
C9_StageIdempotent ==
  [][ run'.cmd = "stage" =>
        LET again == stageCommand(config', sourceExists', source', Repo') IN
        /\ again.repo.work = work'
        /\ again.repo.gitDir = gitDir'
        /\ again.repo.remotes = remotes'
        /\ again.exit = run'.exit
        /\ hasChanges(again.repo.gitDir, again.repo.work, index', HeadTree')
             = hasChanges(gitDir', work', index', HeadTree')
    ]_vars

C9_Witness ==
  /\ run.cmd = "stage"
  /\ run.exit = "returned"
  /\ run.ops = <<>>
  /\ commits # <<>>
  /\ work["dist"] = Dir({"index.js"})
  /\ <<"dist", "util.js">> \in HeadTree

(***************************************************************************)
(* C10: over any sequence of stage invocations git init and the            *)
(* registration of origin happen at most once: a stage that finds no .git  *)
(* initializes the repository, a stage that finds .git leaves history and  *)
(* remotes untouched.                                                      *)
(***************************************************************************)
C10_LazyInitOnce ==
  [][ run'.cmd = "stage" =>
        /\ gitInits' <= 1
        /\ gitDir =>
             /\ gitInits' = gitInits
             /\ gitDir'
             /\ UNCHANGED <<remotes, commits, index, remoteHead>>
             /\ Events(run', "git-init") \cup Events(run', "remote-add") = {}
        /\ (~gitDir /\ run'.message \in {"staged", "no-artifacts"}) =>
             /\ gitDir'
             /\ gitInits' = gitInits + 1
             /\ remotes' = [remotes EXCEPT ![origin] = buildSshUrl(config.server)]
             /\ Cardinality(Events(run', "git-init")) = 1
             /\ Cardinality(Events(run', "remote-add")) = 1
    ]_vars

C10_Witness ==
  /\ run.cmd = "stage"
  /\ run.exit = "returned"
  /\ run.ops = <<>>
  /\ gitInits = 1
  /\ commits # <<>>
  /\ remotes[origin] # 0

(***************************************************************************)
(* Reading the record of a rollback.                                       *)
(***************************************************************************)
RepoVars == <<gitDir, work, index, commits, hashes, remotes, gitInits, tag>>

Destructive(r) == Events(r, "reset") \cup Events(r, "push-force")

\* the commit an object git printed stands for, 0 when it is no object
PeeledCommit(object) ==
  IF object[1] \in {"commit", "tagobject"} THEN object[2] ELSE 0

(***************************************************************************)
(* C11: a stage whose source directory is missing fails without creating   *)
(* or initializing the deploy repository and without copying anything; a   *)
(* rollback where the deploy repository is not initialized fails without   *)
(* running a git command that changes state.                               *)
(***************************************************************************)
C11_PreconditionFailureMutatesNothing ==
  [][ /\ (run'.cmd = "stage" /\ ~sourceExists) =>
           /\ run'.exit = "threw"
           /\ run'.ops = <<>>
           /\ run'.copied = {}
           /\ UNCHANGED <<RepoVars, remoteHead>>
      /\ (run'.cmd = "rollback" /\ ~gitDir) =>
           /\ run'.exit = "threw"
           /\ run'.ops = <<>>
           /\ UNCHANGED <<RepoVars, remoteHead>>
    ]_vars

C11_Witness ==
  /\ run.cmd = "rollback"
  /\ run.message = "repo-not-found"
  /\ run.force
  /\ ~gitDir
  /\ ~sourceExists

(***************************************************************************)
(* C12: the previews (stage dry run, release dry run, deploy --dry-run)    *)
(* change nothing: the source, the deploy repository (files, index,        *)
(* commits, remotes, .git) and every server are as before, and no command  *)
(* that changes state is issued.                                           *)
(***************************************************************************)
C12_DryRunMutatesNothing ==
  [][ run'.cmd \in {"stage-dry-run", "release-dry-run", "deploy-dry-run"} =>
        /\ run'.ops = <<>>
        /\ UNCHANGED <<sourceExists, source, RepoVars, remoteHead, targetDir>>
    ]_vars

C12_Witness ==
  /\ run.cmd = "deploy-dry-run"
  /\ run.message = "would-push"
  /\ run.copied # {}
  /\ Tracked(work) # Tracked(source)

(***************************************************************************)
(* C13: rollback --list resets, commits and pushes nothing and leaves the  *)
(* deploy repository and the servers as they were; what it shows is a      *)
(* prefix of the history read newest first, and its first entry is the     *)
(* current commit.                                                         *)
(***************************************************************************)
C13_ListIsReadOnly ==
  [][ (run'.cmd = "rollback" /\ run'.mode = "list"
         /\ run'.exit = "returned") =>
        /\ run'.ops = <<>>
        /\ UNCHANGED <<RepoVars, remoteHead>>
        /\ Len(run'.listed) <= Len(hashes)
        /\ \A k \in 1..Len(run'.listed) :
             run'.listed[k] = <<"commit", hashes[Len(hashes) + 1 - k]>>
        /\ run'.listed # <<>> => run'.listed[1] = run'.current
    ]_vars

C13_Witness ==
  /\ run.cmd = "rollback"
  /\ run.mode = "list"
  /\ Len(run.listed) >= 2
  /\ run.force

(***************************************************************************)
(* C14: a rollback whose target resolves to the commit HEAD is at makes no *)
(* reset and no force push and ends as a no-op, with or without --force.   *)
(***************************************************************************)
C14_NoOpAtCurrentCommit ==
  (/\ run.cmd = "rollback"
   /\ run.mode # "list"
   /\ PeeledCommit(run.targetCommit) # 0
   /\ PeeledCommit(run.targetCommit) = PeeledCommit(run.current)) =>
    Destructive(run) = {}

(***************************************************************************)
(* C15: without --force a rollback resets and force-pushes only after the  *)
(* user answered y or yes; any other answer cancels it with no reset, no   *)
(* push and no error.  With --force the prompt is not shown.               *)
(***************************************************************************)
C15_ConfirmationGuardsRollback ==
  run.cmd = "rollback" =>
    /\ (Destructive(run) # {} /\ ~run.force) =>
         run.asked /\ toLowerCase(run.answer) \in {<<"y">>, <<"y", "e", "s">>}
    /\ (run.asked /\ toLowerCase(run.answer) \notin {<<"y">>, <<"y", "e", "s">>}) =>
         /\ Destructive(run) = {}
         /\ run.exit = "returned"
         /\ run.message = "cancelled"
    /\ run.force => ~run.asked

C15_Witness ==
  /\ run.cmd = "rollback"
  /\ run.message = "rolled-back"
  /\ ~run.force
  /\ run.answer = <<"Y", "E", "S">>
  /\ run.ops[1].ok

(***************************************************************************)
(* C16: a rollback resets the deploy repository before it force-pushes,    *)
(* and force-pushes to origin only; no other command issues a force push.  *)
(***************************************************************************)
C16_ResetPrecedesForcePush ==
  /\ \A k \in Events(run, "push-force") :
       /\ run.cmd = "rollback"
       /\ run.ops[k].arg = origin
       /\ \E r \in Events(run, "reset") : r < k
  /\ \A r \in Events(run, "reset") :
       \E k \in Events(run, "push-force") : r < k
  /\ run.cmd # "rollback" => Destructive(run) = {}

C16_Witness ==
  /\ run.cmd = "rollback"
  /\ run.ops = <<Ev("reset", run.targetCommit, TRUE),
                 Ev("push-force", origin, TRUE)>>
  /\ remoteHead[remotes[origin]] = HeadHash
  /\ minted > Len(hashes)

(***************************************************************************)
(* C17: a rollback whose target does not resolve to a commit (an unknown   *)
(* ref, or --steps N beyond the history) fails with an error and makes no  *)
(* reset and no force push.                                                *)
(***************************************************************************)
C17_UnresolvedTargetFails ==
  (/\ run.cmd = "rollback"
   /\ run.mode \in {"target", "steps"}
   /\ \/ run.message \in {"invalid-ref", "cannot-go-back"}
      \/ run.targetCommit[1] = "text") =>
    /\ run.exit = "threw"
    /\ Destructive(run) = {}

(***************************************************************************)
(* C18: after releases R1 and R2, a rollback --steps 1 that was confirmed  *)
(* and completed leaves HEAD, the index and the working tree as R1 left    *)
(* them and origin's branch at R1's commit, and a release that follows     *)
(* finds no changes.                                                       *)
(***************************************************************************)
C18_RollbackRestoresPriorRelease ==
  [][ (/\ run.cmd = "release"
       /\ run.message = "released"
       /\ Len(hashes) >= 2
       /\ ~hasChanges(gitDir, work, index, HeadTree)
       /\ run'.cmd = "rollback"
       /\ run'.mode = "steps"
       /\ run'.targetCommit = <<"commit", hashes[Len(hashes) - 1]>>
       /\ run'.asked
       /\ run'.message = "rolled-back"
       /\ run'.exit = "returned") =>
        LET r1 == Len(hashes) - 1 IN
        /\ hashes' = SubSeq(hashes, 1, r1)
        /\ commits' = SubSeq(commits, 1, r1)
        /\ index' = commits[r1]
        /\ Tracked(work') = commits[r1]
        /\ \A p \in Paths : work'[p].present <=> work'[p].files # {}
        /\ ~hasChanges(gitDir', work', index', commits[r1])
        /\ remoteHead'[remotes[origin]] = hashes[r1]
    ]_vars


(***************************************************************************)
(* Reading an install: the commands it issued, by name.                    *)
(***************************************************************************)
Issued(r, op) == {i \in 1..Len(r.ops) : r.ops[i].op = op}

Failed(r, op) == {i \in Issued(r, op) : ~r.ops[i].ok}

InstallRank(op) ==
  CASE op = "checkout" -> 1
    [] op = "load-config" -> 2
    [] op = "write-env" -> 3
    [] op = "npm-install" -> 4
    [] op = "hook-post-deploy" -> 5
    [] OTHER -> 6

\* C19: in an install the configuration is read only after a checkout that
\* succeeded, and an install whose checkout fails throws without loading a
\* configuration, writing .env, installing dependencies or restarting the
\* process: the target directory is as it was.
C19_CheckoutPrecedesConfig ==
  [][run'.cmd = "install" =>
       /\ \A i \in Issued(run', "load-config") :
            \E j \in Issued(run', "checkout") : j < i /\ run'.ops[j].ok
       /\ Failed(run', "checkout") # {} =>
            /\ run'.exit = "threw"
            /\ \A op \in {"load-config", "write-env", "npm-install",
                          "hook-post-deploy", "restart"} : Issued(run', op) = {}
            /\ targetDir' = targetDir]_vars

\* a push is waiting in the bare repository, an earlier one is installed,
\* and the checkout of the install failed
C19_Witness ==
  /\ run.cmd = "install"
  /\ Failed(run, "checkout") # {}
  /\ targetDir.tree.rev = 1
  /\ targetDir.bare.rev = 2
  /\ targetDir.running = 1

\* C20: the commands of an install are issued in the order checkout, .env,
\* npm install, restart; an install whose npm install fails throws, runs no
\* post-deploy hook and restarts nothing, and leaves the new checkout and
\* the new .env in the target directory.
C20_DependencyFailureIsFatal ==
  [][run'.cmd = "install" =>
       /\ \A i, j \in 1..Len(run'.ops) :
            i < j => InstallRank(run'.ops[i].op) <= InstallRank(run'.ops[j].op)
       /\ Issued(run', "restart") # {} =>
            /\ Issued(run', "checkout") # {}
            /\ Issued(run', "npm-install") # {}
       /\ Failed(run', "npm-install") # {} =>
            /\ run'.exit = "threw"
            /\ Issued(run', "hook-post-deploy") = {}
            /\ Issued(run', "restart") = {}
            /\ targetDir'.running = targetDir.running
            /\ targetDir'.deps = targetDir.deps
            /\ targetDir'.tree = targetDir.bare
            /\ Issued(run', "write-env") # {} =>
                 targetDir'.env.lines = generateEnvContent(run'.loaded.env)]_vars

\* the second push was checked out and its .env written, npm install
\* failed, and the process of the first push is still the one running
C20_Witness ==
  /\ run.cmd = "install"
  /\ Failed(run, "npm-install") # {}
  /\ Issued(run, "write-env") # {}
  /\ targetDir.tree.rev = 2
  /\ targetDir.env.lines = generateEnvContent(targetDir.tree.config.env)
  /\ targetDir.deps = 1
  /\ targetDir.running = 1


C22_RestartBeforeSuccess ==
  run.cmd = "install" /\ run.exit = "returned" => Issued(run, "restart") # {}

\* C23: after an install that succeeded with the configuration it checked
\* out, .env holds one line key=value per variable of that configuration
\* and nothing else.
C23_EnvIsOverwrittenWholesale ==
  [][run'.cmd = "install" /\ run'.exit = "returned"
       /\ run'.loaded = targetDir'.tree.config =>
       targetDir'.env.lines = generateEnvContent(targetDir'.tree.config.env)]_vars


(***************************************************************************)
(* Reading a run of the hook: the commands issued for ref number i.        *)
(***************************************************************************)
IssuedFor(r, i) == {r.ops[k].op : k \in {k \in 1..Len(r.ops) : r.ops[k].arg = i}}

DeployRefs == {<<"refs", "heads", "main">>, <<"refs", "heads", "master">>}

\* C24: the hook extracts, installs and restarts only for a push to main or
\* master; for any other ref it logs that the branch is ignored, does
\* nothing else for it, and goes on to the next ref of the push.
C24_OnlyDeployBranchIsInstalled ==
  run.cmd = "post-receive" =>
    \A i \in 1..Len(run.refs) :
      /\ run.refs[i] \notin DeployRefs => IssuedFor(run, i) \subseteq {"ignored"}
      /\ "ignored" \in IssuedFor(run, i) =>
           /\ run.refs[i] \notin DeployRefs
           /\ i < Len(run.refs) => IssuedFor(run, i + 1) # {}

\* a push of a tag named main and of the branch main: the tag was ignored,
\* the branch extracted and restarted
C24_Witness ==
  /\ run.cmd = "post-receive"
  /\ run.refs = <<<<"refs", "tags", "main">>, <<"refs", "heads", "main">>>>
  /\ IssuedFor(run, 1) = {"ignored"}
  /\ "restart" \in IssuedFor(run, 2)
  /\ targetDir.tree = targetDir.bare
  /\ targetDir.tree.rev > 0


(***************************************************************************)
(* Reading a service entry: the servers a command may take from it,        *)
(* config.server (init, daemon) and getServers(config) (release).          *)
(***************************************************************************)
ConfiguredServers(file) ==
  (IF file.server = NoServer THEN {} ELSE {file.server})
    \cup {file.servers.items[i] : i \in 1..Len(file.servers.items)}

\* an absolute path of shell-safe characters
AbsoluteSafePath(value) == VALID_PATH_PATTERN(value) /\ value[1] = "/"

\* C25: every service entry getServiceConfig returns has, for each of its
\* servers, a host, targetDir and bareRepo of shell-safe characters, and
\* targetDir and bareRepo are absolute paths.
C25_ReturnedConfigIsShellSafe ==
  run.cmd = "getServiceConfig" /\ run.exit = "returned" =>
    \A server \in ConfiguredServers(run.file) :
      /\ VALID_HOST_PATTERN(server.host)
      /\ AbsoluteSafePath(server.targetDir)
      /\ AbsoluteSafePath(server.bareRepo)


\* C26: once a release has run ensureRemotes, origin points to the first
\* server of the configuration, and with several servers every server i
\* has the remote server-i pointing to it.
C26_RemotesFollowConfiguration ==
  run.cmd = "release" /\ Issued(run, "add") # {} =>
    LET servers == getServers(config) IN
      /\ remotes[origin] = buildSshUrl(servers[1])
      /\ Len(servers) > 1 =>
           \A i \in 1..Len(servers) :
             remotes[serverRemote(i - 1)] = buildSshUrl(servers[i])


\* C27: an init run on a server that was initialized before keeps the bare
\* repository with everything pushed to it, and keeps the target directory
\* with what is checked out and written there.
C27_InitIsNonDestructive ==
  [][run'.cmd = "init" /\ targetDir.initialized =>
       /\ targetDir.bareExists =>
            targetDir'.bareExists /\ targetDir'.bare = targetDir.bare
       /\ targetDir.exists =>
            /\ targetDir'.exists
            /\ targetDir'.tree = targetDir.tree
            /\ targetDir'.env = targetDir.env
            /\ targetDir'.logs = targetDir.logs
            /\ targetDir'.deps = targetDir.deps]_vars

\* init is run again after two pushes were installed
C27_Witness ==
  /\ run.cmd = "init"
  /\ Issued(run, "rm-rf") = {}
  /\ targetDir.bare.rev = MaxPushes
  /\ targetDir.tree = targetDir.bare
  /\ targetDir.env.present
  /\ targetDir.running = MaxPushes


\* C28: whatever the channels answer, a release that notifies returns, and
\* what it reports follows from the hooks and the pushes alone.
C28_NotificationsNeverFailRelease ==
  [][run'.cmd = "release" /\ Issued(run', "notify") # {} =>
       /\ run'.exit = "returned"
       /\ run'.message =
            IF Issued(run', "push") = {} THEN "hooks-failed"
            ELSE IF run'.pushSuccess THEN "released"
            ELSE "released-with-errors"
       /\ run'.pushSuccess <=> run'.failedServers = <<>>]_vars

\* a release was pushed while one channel answered with an HTTP error
\* status and another with a network exception
C28_Witness ==
  /\ run.cmd = "release"
  /\ run.message = "released"
  /\ run.delivery["webhook"] = "failed"
  /\ run.delivery["slack"] = "error"
  /\ run.delivery["discord"] = "skipped"


\* C29: nothing is committed between the reset and the force push of a
\* rollback, so a force push that origin accepts leaves origin at the
\* commit the rollback was aimed at.
C29_ForcePushPublishesTarget ==
  [][run.message = "reset-done" /\ run'.message = "rolled-back"
       /\ (\E i \in Issued(run', "push-force") : run'.ops[i].ok) =>
       remoteHead'[remotes[origin]] = PeeledCommit(run.targetCommit)]_vars

\* a release that ran its hooks into a failure or pushed to a server, and a
\* rollback that reset the deploy repository, are attempts
Attempted(r) ==
  \/ r.cmd = "release" /\ (r.message = "hooks-failed" \/ Issued(r, "push") # {})
  \/ r.cmd = "rollback" /\ Issued(r, "reset") # {}

\* C30: every release attempt and every rollback attempt hands exactly one
\* result to the notification sink, and the result says whether the attempt
\* succeeded.
C30_OneResultPerAttempt ==
  Attempted(run) =>
    /\ Cardinality(Issued(run, "notify")) = 1
    /\ \A i \in Issued(run, "notify") :
         run.ops[i].ok <=> (run.message = "released")

\* C31: after a release that committed but failed to push to some server, a
\* second release with nothing new staged, whose hooks pass, pushes to that
\* server again.
C31_FailedPushIsRetried ==
  [][/\ run.cmd = "release"
     /\ \E c \in Events(run, "commit") : run.ops[c].ok
     /\ run'.cmd = "release"
     /\ run'.message # "hooks-failed"
     /\ ~hasChanges(gitDir, work, index, HeadTree)
     => \A k \in 1..NumServers :
          PushFailed(run, k)
            => \E i \in Events(run', "push") : run'.ops[i].arg = k]_vars

\* C32: where a release made a commit and got to its pushes, every server
\* that was reachable for its push holds the new release commit afterwards,
\* rollbacks before it or not.
C32_ReleaseAfterRollbackReachesAll ==
  [][/\ run'.cmd = "release"
     /\ PushPhase(run')
     /\ \E c \in Events(run', "commit") : run'.ops[c].ok
     => \A i \in run'.reached :
          remoteHead'[getServers(config)[i]] = HeadHash']_vars

(***************************************************************************)
(* Reading the restart of an install.                                      *)
(***************************************************************************)
Pm2Commands == {"pm2-describe", "pm2-restart", "pm2-start", "restart",
                "pm2-save", "pm2-status"}

\* the install got to its process manager, which is pm
Restarting(r, pm) ==
  /\ r.cmd = "install"
  /\ r.loaded.processManager = pm
  /\ Issued(r, "restart") # {} \/ Issued(r, "gpdd-which") # {}

\* C33: in an install with pm2, pm2 restart is run exactly when pm2 knows
\* the process and pm2 start exactly when it does not; pm2 save follows a
\* restart line that succeeded; and the commands go through sudo -u exactly
\* when pm2User is configured and is not the user the hook runs as.
C33_Pm2RestartOrStart ==
  [][Restarting(run', "pm2") =>
       /\ \A i \in Issued(run', "pm2-describe") :
            /\ Issued(run', "pm2-restart") # {} <=> run'.ops[i].ok
            /\ Issued(run', "pm2-start") # {} <=> ~run'.ops[i].ok
       /\ \A i \in Issued(run', "pm2-save") :
            \E j \in Issued(run', "restart") : j < i /\ run'.ops[j].ok
       /\ \A i \in 1..Len(run'.ops) :
            run'.ops[i].op \in Pm2Commands =>
              (run'.ops[i].arg = 1 <=>
                 /\ run'.loaded.pm2User # ""
                 /\ run'.loaded.pm2User # run'.hookUser)]_vars

\* C34: an install with gpdd, once gpdd is at hand, sends a reload exactly
\* when the PID marker file is in the target directory and a cold start
\* exactly when it is not, one of the two and never both; and it does not
\* fail because the status of the daemon could not be had.
C34_GpddReloadOrStart ==
  [][Restarting(run', "gpdd") /\ Failed(run', "gpdd-install") = {} =>
       /\ Issued(run', "gpdd-reload") # {} <=> targetDir.pid
       /\ Issued(run', "gpdd-start") # {} <=> ~targetDir.pid
       /\ Cardinality(Issued(run', "gpdd-reload")
                        \cup Issued(run', "gpdd-start")) = 1
       /\ Failed(run', "gpdd-status") # {} => run'.exit = "returned"]_vars

\* the daemon of the first push was running, the second install sent it a
\* reload, and the status command after it failed
C34_Witness ==
  /\ Restarting(run, "gpdd")
  /\ Issued(run, "gpdd-reload") # {}
  /\ Failed(run, "gpdd-status") # {}
  /\ run.exit = "returned"
  /\ targetDir.pid
  /\ targetDir.running = MaxPushes

\* C35: after a stage that succeeded the deploy repository holds, for every
\* configured artifact, exactly what the source holds: the same files where
\* the source has the artifact, nothing where it has not.
C35_StageMirrorsSource ==
  run.cmd = "stage" /\ run.exit = "returned" =>
    \A a \in ArtifactSet :
      work[a] = IF exists(source[a]) THEN source[a] ELSE Absent

\* the commands a deployCommand has awaited so far
Awaited(d) == [i \in 1..Len(d.calls) |-> d.calls[i].cmd]

ListedBefore(hs) ==
  [k \in 1..(IF Len(hs) - 1 < InteractiveCount - 1 THEN Len(hs) - 1
             ELSE InteractiveCount - 1) |-> <<"commit", hs[Len(hs) - k]>>]

\* the line that is the number k, 1 <= k <= 9
Numeral(k) == <<Digits[k + 1]>>

\* C37: an interactive rollback with fewer than two commits throws and
\* changes nothing; otherwise the line that is a number k of the list aims
\* the rollback at the k-th commit before HEAD, and every other line
\* cancels it with no reset and no push.
C37_SelectionIsListedOrCancels ==
  [][run'.cmd = "rollback" /\ run'.mode = "interactive" /\ gitDir =>
       LET listed == ListedBefore(hashes) IN
       IF Len(hashes) < 2
         THEN /\ run'.exit = "threw"
              /\ UNCHANGED <<work, index, commits, hashes, remoteHead>>
       ELSE IF \E k \in 1..Len(listed) : run'.selection = Numeral(k)
         THEN \E k \in 1..Len(listed) :
                /\ run'.selection = Numeral(k)
                /\ run'.targetCommit = listed[k]
       ELSE /\ run'.message = "cancelled"
            /\ ~run'.asked
            /\ Destructive(run') = {}
            /\ UNCHANGED <<work, index, commits, hashes, remoteHead>>]_vars

\* C38: the IPC port of a process name is the one value getIpcPort computes
\* from the name, and it lies in 50000..59999, also where the hash wrapped
\* around 32 bits or is the most negative 32-bit integer.
C38_IpcPortInRange ==
  run.cmd = "getIpcPort" =>
    /\ run.port = getIpcPort(run.file.processName)
    /\ run.port >= IpcPortBase
    /\ run.port <= IpcPortBase + IpcPortCount - 1

\* the port of a name whose hash is -2^31
C38_Witness ==
  /\ run.cmd = "getIpcPort"
  /\ hashFrom(run.file.processName, 1, [hi |-> 0, lo |-> 0])
       = [hi |-> Half \div 2, lo |-> 0]
  /\ run.port = 53648

====
